---- MODULE Spec2Model ----
(***************************************************************************)
(* Satellite image service (TVAO/scalability_of_web_systems).              *)
(*                                                                         *)
(* Eleven state machines share this module:                                *)
(*   SpecRetry   retry, called repeatedly with one RequestRetrySession     *)
(*   SpecRegion  imagesByRegion + getImageCount  (cell count dispatcher)   *)
(*   SpecPool    pool + worker, and the project 2 area + worker variant    *)
(*   SpecGeo     geo: parse, regionCover, imagesByRegion, encode           *)
(*   SpecHandler images and area of the project 3 service                  *)
(*   SpecQuery   the WHERE clause of getImageCount and getImageBaseURL     *)
(*   SpecListing one operation of worker or parse: direct call, then retry *)
(*   SpecServe   appHandler.ServeHTTP around a handler                     *)
(*   SpecAreaQuery  /area asked with two corners, then with them exchanged *)
(*   SpecUsers   the users service of the exam, request after request      *)
(*   SpecExam    the worker pool example of the exam                       *)
(* Each specification drives its own variables and leaves the others at    *)
(* their idle values.                                                      *)
(***************************************************************************)
EXTENDS Integers, Sequences, FiniteSets, TLC

VARIABLES
    \* ---- retry(attempts, sleep, callback) ----
    attempts,     \* parameter attempts
    baseDelay,    \* the value of parameter sleep at the call
    sleep,        \* the local (mutable) parameter sleep
    i,            \* loop counter
    err,          \* named result err: 0 is nil, n > 0 the error of the n-th invocation
    retryPc,      \* "callback" | "sleep" | "returned"
    retryRet,     \* value returned by retry
    plan,         \* the operation: number of failing invocations before it succeeds
    calls,        \* history: invocations of callback so far
    slept,        \* history: durations passed to time.Sleep, in order
    session,      \* the RequestRetrySession the caller takes the arguments from
    round,        \* history: retry calls started with this session
    prevSleep,    \* history: value of sleep when the previous call ended (0: none)
    ctxDoneAt     \* history: where retry was when the request context ended

retryVars == <<attempts, baseDelay, sleep, i, err, retryPc, retryRet, plan, calls, slept,
               session, round, prevSleep, ctxDoneAt>>

VARIABLES
    \* ---- imagesByRegion(cover, r) and its getImageCount tasks ----
    cover,         \* s2.CellUnion: cell ids, sorted and distinct
    client,        \* bigquery.NewClient: "unset" | "ok" | "err"
    regionPc,      \* "newClient" | "spawn" | "await" | "returned"
    tasks,         \* the goroutines started so far, in start order
    awaited,       \* completed iterations of `for range cover`
    imageCount,    \* local imageCount
    results,       \* buffered channel results: its queue
    resultsClosed, \* close(results) has run
    regionRet,     \* (int, error) returned by imagesByRegion
    panicked,      \* a goroutine panicked: the process is gone
    queried,       \* history: the bounds of every count query issued, in order
    received       \* history: the counts in the order the dispatcher received them

regionVars == <<cover, client, regionPc, tasks, awaited, imageCount, results,
                resultsClosed, regionRet, panicked, queried, received>>

VARIABLES
    \* ---- pool(links, r) with its workers (project 3), and the inline pool of
    \* ---- the project 2 area handler with its workers
    variant,       \* "pool" (project 3: unbuffered channels, retry) | "area" (project 2)
    links,         \* the base-URL links, distinct
    storage,       \* storage.NewClient in pool: "unset" | "ok" | "err"
    poolPc,        \* "newClient" | "start" | "send" | "collect" | "returned"
    workers,       \* the worker goroutines started so far
    jobsSent,      \* links already pushed on jobs
    jobs,          \* channel jobs: its queue
    jobsClosed,    \* close(jobs) has run
    poolResults,   \* channel results: its queue
    poolResultsClosed, \* close(results) has run
    collected,     \* completed iterations of the collecting loop
    imageResult,   \* the Result being built and returned
    crashed,       \* "no" | "fatal" (log.Fatal ended the process) | "panic"
    listings       \* history: per link, <<worker, outcome>> of each time it was processed

poolVars == <<variant, links, storage, poolPc, workers, jobsSent, jobs, jobsClosed,
              poolResults, poolResultsClosed, collected, imageResult, crashed, listings>>

VARIABLES
    \* ---- geo(w, r): parse, regionCover(coords, 15, 100), imagesByRegion ----
    geoCountry,    \* form value "country"
    geoPc,         \* "parseForm" | "parse" | "pair" | "count" | "encode" | "done" | "panicked"
    geoInput,      \* history: the []float64 parse returned
    coords,        \* regionCover: local coords, the part not yet consumed
    points,        \* regionCover: local points
    geoLoop,       \* the vertices handed to s2.LoopFromPoints
    geoCover,      \* the s2.CellUnion regionCover returned
    geoSpawned,    \* history: per-cell count tasks imagesByRegion started
    geoCount,      \* local imageCount of geo
    geoResponse,   \* what the client receives: [code, body]
    geoStages      \* history: the calls geo made, in order, with their arguments

geoVars == <<geoCountry, geoPc, geoInput, coords, points, geoLoop, geoCover,
             geoSpawned, geoCount, geoResponse, geoStages>>

VARIABLES
    \* ---- images(w, r) and area(w, r) of the project 3 service ----
    handler,       \* "images" | "area"
    form,          \* r.Form: the values of address, lat, lng, lat1, lng1, lat2, lng2
    hPc,           \* "parseForm" | "convert" | "validate" | "query" | "pool" | "encode" | "done" | "panicked"
    hLat,          \* images: local lat
    hLng,          \* images: local lng
    hQueries,      \* history: the index queries issued, with their arguments
    hGeocoded,     \* history: fetches from the geocoding service
    hPoolCalls,    \* history: calls of pool
    hPoolResult,   \* area: local imageResult, with the length of its Links
    hFailed,       \* history: the external operations that failed
    hResponse      \* what the client receives: [code, body]

handlerVars == <<handler, form, hPc, hLat, hLng, hQueries, hGeocoded, hPoolCalls,
                 hPoolResult, hFailed, hResponse>>

VARIABLES
    \* ---- the WHERE clause of getImageCount and getImageBaseURL on one record ----
    qCell,         \* the cell whose bounds the dispatcher passes
    qRecord,       \* an index record: south_lat, north_lat, west_lon, east_lon
    qArgs,         \* lat1, lng1, lat2, lng2 as passed to getImageCount
    qPc,           \* "args" | "count" | "baseURL" | "done"
    qCounted,      \* the record is selected by the query of getImageCount
    qListed        \* the record is selected by the query of getImageBaseURL

queryVars == <<qCell, qRecord, qArgs, qPc, qCounted, qListed>>

VARIABLES
    \* ---- one network operation of worker or parse: the direct call, then retry ----
    lCaller,       \* "worker" (getImagesFromBucket) | "parse" (client.Get)
    lDirect        \* the direct call: "pending" | "ok" | "failed"

listVars == <<lCaller, lDirect>>

VARIABLES
    \* ---- appHandler.ServeHTTP(w, r) ----
    sPc,           \* "start" | "handler" | "error" | "defer" | "returned" | "panicked"
    sClock,        \* minutes since the request arrived
    sDeadline,     \* deadline of ctxWithDeadline, in minutes of sClock; NoDeadline before it exists
    sCtxDone,      \* ctxWithDeadline: "no" | "deadline" | "cancel"
    sErr,          \* what fn returned: Nil or the appError's Message and Code
    sResponse,     \* what the client receives: [code, body]
    sCancelCalls,  \* history: calls of cancel
    sBodyClosed    \* r.Body.Close() has run

serveVars == <<sPc, sClock, sDeadline, sCtxDone, sErr, sResponse, sCancelCalls,
               sBodyClosed>>

VARIABLES
    \* ---- /area asked twice, the second time with its two corners exchanged ----
    aqCorners,     \* the form of the first request: lat1, lng1, lat2, lng2
    aqRecord,      \* an index record: south_lat, north_lat, west_lon, east_lon
    aqPc,          \* "first" | "second" | "done"
    aqArgs,        \* history: the arguments area passed to getImageBaseURL, per request
    aqSelected     \* history: whether the query selected the record, per request

areaQueryVars == <<aqCorners, aqRecord, aqPc, aqArgs, aqSelected>>

VARIABLES
    \* ---- the users service (exam): one request after the other ----
    users,         \* var users []User: the names, in order
    uServed,       \* requests served so far
    uBefore,       \* history: users when the last request arrived
    uRequest,      \* history: the last request
    uResponse,     \* history: its response, [code, body]
    uPosted        \* history: the names the POST requests appended

usersVars == <<users, uServed, uBefore, uRequest, uResponse, uPosted>>

VARIABLES
    \* ---- the worker pool example (exam): pool() and its workers ----
    ePc,           \* pool: "start" | "send" | "collect" | "returned"
    eStarted,      \* worker goroutines started so far
    eSent,         \* jobs sent so far
    eJobs,         \* channel jobs: its queue
    eJobsClosed,   \* close(jobs) has run
    eResults,      \* channel results: its queue
    eCollected,    \* results received by pool so far
    eWorkers,      \* per worker: pc "unstarted" | "recv" | "work" | "done", and its job j
    eReceived,     \* history: per job, the workers that received it, in order
    eProduced      \* history: per job, the results sent for it, in order

examVars == <<ePc, eStarted, eSent, eJobs, eJobsClosed, eResults, eCollected,
              eWorkers, eReceived, eProduced>>

otherVars == <<serveVars, areaQueryVars, usersVars, examVars>>

vars == <<retryVars, regionVars, poolVars, geoVars, handlerVars, queryVars, listVars,
          otherVars>>

notRetryVars == <<regionVars, poolVars, geoVars, handlerVars, queryVars, listVars,
                  otherVars>>
notRegionVars == <<retryVars, poolVars, geoVars, handlerVars, queryVars, listVars,
                   otherVars>>
notPoolVars == <<retryVars, regionVars, geoVars, handlerVars, queryVars, listVars,
                 otherVars>>
notGeoVars == <<retryVars, regionVars, poolVars, handlerVars, queryVars, listVars,
                otherVars>>
notHandlerVars == <<retryVars, regionVars, poolVars, geoVars, queryVars, listVars,
                    otherVars>>
notQueryVars == <<retryVars, regionVars, poolVars, geoVars, handlerVars, listVars,
                  otherVars>>
notListOrRetryVars == <<regionVars, poolVars, geoVars, handlerVars, queryVars,
                        otherVars>>
notServeVars == <<retryVars, regionVars, poolVars, geoVars, handlerVars, queryVars,
                  listVars, areaQueryVars, usersVars, examVars>>
notAreaQueryVars == <<retryVars, regionVars, poolVars, geoVars, handlerVars, queryVars,
                      listVars, serveVars, usersVars, examVars>>
notUsersVars == <<retryVars, regionVars, poolVars, geoVars, handlerVars, queryVars,
                  listVars, serveVars, areaQueryVars, examVars>>
notExamVars == <<retryVars, regionVars, poolVars, geoVars, handlerVars, queryVars,
                 listVars, serveVars, areaQueryVars, usersVars>>

\* ------------------------------------------------------------------ bounds
MaxAttempts == 3
NonPositiveAttempts == 1
MaxDelay == 4
MaxCover == 2
MaxCount == 2
MaxLinks == 2
MaxCallsPerSession == 2
MaxCoords == 6
MaxCoord == 1
MaxMinutes == 6
MaxDegree == 3
MaxRequests == 3

\* ------------------------------------------------------------------ values
Nil == [kind |-> "nil"]
Always == -1
NotDone == [round |-> 0, calls |-> 0, pc |-> "none"]
NoResponse == [code |-> 0, body |-> <<>>]

\* ====================================================================
\* retry
\* ====================================================================

\* callback(): the operation fails on its first `plan` invocations (on every
\* invocation when plan = Always); the n-th invocation's error is n.
Callback(n) == IF plan = Always \/ n <= plan THEN n ELSE 0

ExhaustedLate(iv, att) == iv >= att
ExhaustedEarly(iv, att) == iv >= att - 2

\* if i >= (attempts - 1) { break }
Exhausted(iv, att) == iv >= (att - 1)

NextSleepFullJitter(s, jitter) == s + jitter

\* sleep = sleep + jitter/2
NextSleep(s, jitter) == s + (jitter \div 2)

\* fmt.Errorf("after %d attempts, last error: %s", attempts, err)
Errorf(att, e) == [kind |-> "retryError", attempts |-> att, last |-> e]

\* NewRetry(retries, duration)
NewRetry(retries, duration) == [MaxRetries |-> retries, Duration |-> duration]

CallArgsSpent(sess) == [attempts |-> sess.MaxRetries - 1, sleep |-> sess.Duration + 1]

\* retry(DefaultRetry().MaxRetries, DefaultRetry().Duration*time.Second, ...):
\* the arguments are copies of the session's fields; durations are in seconds.
CallArgs(sess) == [attempts |-> sess.MaxRetries, sleep |-> sess.Duration]

RetryInit ==
    /\ session \in {NewRetry(n, d) : n \in (0 - NonPositiveAttempts)..MaxAttempts,
                                     d \in 1..MaxDelay}
    /\ attempts = CallArgs(session).attempts
    /\ baseDelay = CallArgs(session).sleep
    /\ sleep = baseDelay
    /\ round = 1
    /\ prevSleep = 0
    /\ ctxDoneAt = NotDone
    /\ plan \in {Always} \cup (0..MaxAttempts)
    /\ i = 0
    /\ err = 0
    /\ retryPc = "callback"
    /\ retryRet = Nil
    /\ calls = 0
    /\ slept = <<>>

\* err = callback(); if err == nil { return }; if i >= attempts-1 { break }
RetryCallback ==
    /\ retryPc = "callback"
    /\ calls' = calls + 1
    /\ err' = Callback(calls + 1)
    /\ IF err' = 0
       THEN /\ retryPc' = "returned"
            /\ retryRet' = Nil
       ELSE IF Exhausted(i, attempts)
       THEN /\ retryPc' = "returned"
            /\ retryRet' = Errorf(attempts, err')
       ELSE /\ retryPc' = "sleep"
            /\ retryRet' = retryRet
    /\ UNCHANGED notRetryVars
    /\ UNCHANGED <<attempts, baseDelay, sleep, i, plan, slept, session, round,
                   prevSleep, ctxDoneAt>>

\* jitter := rand.Int63n(sleep); sleep = sleep + jitter/2; time.Sleep(sleep); i++
RetrySleep ==
    /\ retryPc = "sleep"
    /\ \E jitter \in 0..(sleep - 1) :
          /\ sleep' = NextSleep(sleep, jitter)
          /\ slept' = Append(slept, sleep')
    /\ i' = i + 1
    /\ retryPc' = "callback"
    /\ UNCHANGED notRetryVars
    /\ UNCHANGED <<attempts, baseDelay, err, retryRet, plan, calls, session, round,
                   prevSleep, ctxDoneAt>>

\* A later call of retry with the same session, by the same or another worker:
\* retry(DefaultRetry().MaxRetries, DefaultRetry().Duration*time.Second, ...)
RetryCall ==
    /\ retryPc = "returned"
    /\ round < MaxCallsPerSession
    /\ attempts' = CallArgs(session).attempts
    /\ baseDelay' = CallArgs(session).sleep
    /\ sleep' = CallArgs(session).sleep
    /\ plan' \in {Always} \cup (0..MaxAttempts)
    /\ i' = 0
    /\ err' = 0
    /\ retryPc' = "callback"
    /\ retryRet' = Nil
    /\ calls' = 0
    /\ slept' = <<>>
    /\ round' = round + 1
    /\ prevSleep' = sleep
    /\ UNCHANGED notRetryVars
    /\ UNCHANGED <<session, ctxDoneAt>>

\* ctxWithDeadline, cancel := context.WithTimeout(ctx, 5*time.Minute): the
\* request context ends (deadline or cancel) while retry runs or sleeps. retry
\* takes no context and reads none.
CtxDone ==
    /\ retryPc \in {"callback", "sleep"}
    /\ ctxDoneAt = NotDone
    /\ ctxDoneAt' = [round |-> round, calls |-> calls, pc |-> retryPc]
    /\ UNCHANGED notRetryVars
    /\ UNCHANGED <<attempts, baseDelay, sleep, i, err, retryPc, retryRet, plan, calls,
                   slept, session, round, prevSleep>>

RetryNext == RetryCallback \/ RetrySleep \/ RetryCall \/ CtxDone

\* The retry variables while another specification runs.
RetryIdle ==
    /\ attempts = 0 /\ baseDelay = 0 /\ sleep = 0 /\ i = 0 /\ err = 0
    /\ retryPc = "idle" /\ retryRet = Nil /\ plan = 0 /\ calls = 0 /\ slept = <<>>
    /\ session = NewRetry(0, 0) /\ round = 0 /\ prevSleep = 0 /\ ctxDoneAt = NotDone

\* ====================================================================
\* imagesByRegion / getImageCount
\* ====================================================================

\* bucketGranuleSize = 13
bucketGranuleSize == 13

\* The cells a cover is drawn from.
CellIds == 1..MaxCover

\* s2.CellFromCellID(id).RectBound(): the cell's bounding rectangle (distinct
\* cells of one cover have distinct rectangles).
RectBound(id) ==
    [lo |-> [lat |-> 10 * id,     lng |-> 10 * id + 1],
     hi |-> [lat |-> 10 * id + 5, lng |-> 10 * id + 6]]

\* s1.Angle.String(): the angle printed in degrees.
AngleString(a) == <<"deg", a>>

SpawnArgsFirstCell(cov, n) ==
    LET rb == RectBound(cov[1]) IN
    [lat1 |-> AngleString(rb.lo.lat), lng1 |-> AngleString(rb.lo.lng),
     lat2 |-> AngleString(rb.hi.lat), lng2 |-> AngleString(rb.hi.lng)]

\* go getImageCount(client, r, results, errChan, Lo.Lat, Lo.Lng, Hi.Lat, Hi.Lng)
\* for c := s2.CellFromCellID(cover[i]); n is i + 1.
SpawnArgs(cov, n) ==
    LET rb == RectBound(cov[n]) IN
    [lat1 |-> AngleString(rb.lo.lat), lng1 |-> AngleString(rb.lo.lng),
     lat2 |-> AngleString(rb.hi.lat), lng2 |-> AngleString(rb.hi.lng)]

\* A goroutine running getImageCount, at its first statement.
\*   rows: "unset" | "ok" | "nil"   the *RowIterator returned by query.Read
\*   row:  <<>> or <<v>>            the []bigquery.Value last loaded by rows.Next
\*   sent: the number of channel sends the goroutine has completed
NewTask(args) ==
    [args |-> args, pc |-> "read", count |-> 0, rows |-> "unset", row |-> <<>>,
     nrows |-> 0, errv |-> Nil, failed |-> FALSE, sent |-> 0]

AccumulateOverwrite(total, count) == count

\* imageCount += count
Accumulate(total, count) == total + count

ErrorReturnPartial(total, e) == [count |-> total, err |-> e]

\* case err := <-errChan: return 0, err
ErrorReturn(total, e) == [count |-> 0, err |-> e]

\* return imageCount * bucketGranuleSize, nil
CountReturn(total) == [count |-> total * bucketGranuleSize, err |-> Nil]

ReceivesOneMore(cov) == Len(cov) + 1

ReceivesOneLess(cov) == Len(cov) - 1

\* for range cover { select { ... } }: the iterations of the aggregation loop
Receives(cov) == Len(cov)

ResultsCapOneLess(cov) == Len(cov) - 1

\* numberOfJobs := len(cover); results := make(chan int, numberOfJobs)
ResultsCap(cov) == Len(cov)

\* Strictly increasing sequences of cell ids of length at most MaxCover.
Covers ==
    {cv \in UNION {[1..n -> CellIds] : n \in 0..MaxCover} :
        \A a \in 1..Len(cv), b \in 1..Len(cv) : a < b => cv[a] < cv[b]}

RegionInit ==
    /\ cover \in Covers
    /\ client = "unset"
    /\ regionPc = "newClient"
    /\ tasks = <<>>
    /\ awaited = 0
    /\ imageCount = 0
    /\ results = <<>>
    /\ resultsClosed = FALSE
    /\ regionRet = [count |-> 0, err |-> Nil]
    /\ panicked = FALSE
    /\ queried = <<>>
    /\ received = <<>>

\* client, err := bigquery.NewClient(...); if err != nil { return 0, err }
RegionNewClient ==
    /\ regionPc = "newClient" /\ ~panicked
    /\ \E ok \in BOOLEAN :
          IF ok
          THEN /\ client' = "ok"
               /\ regionPc' = "spawn"
               /\ regionRet' = regionRet
          ELSE /\ client' = "err"
               /\ regionPc' = "returned"
               /\ regionRet' = [count |-> 0, err |-> [kind |-> "clientError"]]
    /\ UNCHANGED notRegionVars
    /\ UNCHANGED <<cover, tasks, awaited, imageCount, results, resultsClosed,
                   panicked, queried, received>>

\* for i := 0; i < len(cover); i++ { ...; go getImageCount(...) }
RegionSpawn ==
    /\ regionPc = "spawn" /\ ~panicked
    /\ IF Len(tasks) < Len(cover)
       THEN /\ tasks' = Append(tasks, NewTask(SpawnArgs(cover, Len(tasks) + 1)))
            /\ regionPc' = regionPc
       ELSE /\ tasks' = tasks
            /\ regionPc' = "await"
    /\ UNCHANGED notRegionVars
    /\ UNCHANGED <<cover, client, awaited, imageCount, results, resultsClosed,
                   regionRet, panicked, queried, received>>

\* select { case count := <-results: imageCount += count }
RegionRecvCount ==
    /\ regionPc = "await" /\ ~panicked
    /\ awaited < Receives(cover)
    /\ results # <<>>
    /\ imageCount' = Accumulate(imageCount, Head(results))
    /\ received' = Append(received, Head(results))
    /\ results' = Tail(results)
    /\ awaited' = awaited + 1
    /\ UNCHANGED notRegionVars
    /\ UNCHANGED <<cover, client, regionPc, tasks, resultsClosed, regionRet,
                   panicked, queried>>

\* select { case err := <-errChan: return 0, err } meeting task t's
\* `errors <- err` on the unbuffered channel.
RegionRecvErr(t) ==
    /\ regionPc = "await" /\ ~panicked
    /\ awaited < Receives(cover)
    /\ tasks[t].pc \in {"sendReadErr", "sendNextErr"}
    /\ regionRet' = ErrorReturn(imageCount, tasks[t].errv)
    /\ regionPc' = "returned"
    /\ tasks' = [tasks EXCEPT ![t] =
          [@ EXCEPT !.sent = @ + 1,
                    !.pc = IF tasks[t].pc = "sendReadErr" THEN "next" ELSE "useRow"]]
    /\ UNCHANGED notRegionVars
    /\ UNCHANGED <<cover, client, awaited, imageCount, results, resultsClosed,
                   panicked, queried, received>>

\* The loop is over: close(results); return imageCount * bucketGranuleSize, nil
RegionClose ==
    /\ regionPc = "await" /\ ~panicked
    /\ awaited = Receives(cover)
    /\ resultsClosed' = TRUE
    /\ regionRet' = CountReturn(imageCount)
    /\ regionPc' = "returned"
    /\ UNCHANGED notRegionVars
    /\ UNCHANGED <<cover, client, tasks, awaited, imageCount, results, panicked,
                   queried, received>>

\* rows, err := query.Read(r.Context()); if err != nil { errors <- err }
TaskRead(t) ==
    /\ ~panicked
    /\ tasks[t].pc = "read"
    /\ queried' = Append(queried, tasks[t].args)
    /\ \E ok \in BOOLEAN :
          tasks' = [tasks EXCEPT ![t] =
             IF ok
             THEN [@ EXCEPT !.rows = "ok", !.pc = "next"]
             ELSE [@ EXCEPT !.rows = "nil", !.pc = "sendReadErr", !.failed = TRUE,
                            !.errv = [kind |-> "readError", task |-> t]]]
    /\ UNCHANGED notRegionVars
    /\ UNCHANGED <<cover, client, regionPc, awaited, imageCount, results,
                   resultsClosed, regionRet, panicked, received>>

\* err := rows.Next(&row) on the nil iterator a failed Read returned: a nil
\* pointer dereference.
TaskNextNil(t) ==
    /\ ~panicked
    /\ tasks[t].pc = "next" /\ tasks[t].rows = "nil"
    /\ panicked' = TRUE
    /\ UNCHANGED notRegionVars
    /\ UNCHANGED <<cover, client, regionPc, tasks, awaited, imageCount, results,
                   resultsClosed, regionRet, queried, received>>

\* err := rows.Next(&row) loading the COUNT row, then
\* imgCount := int(row[0].(int64)); count += imgCount
TaskNextRow(t) ==
    /\ ~panicked
    /\ tasks[t].pc = "next" /\ tasks[t].rows = "ok" /\ tasks[t].nrows = 0
    /\ \E v \in 0..MaxCount :
          tasks' = [tasks EXCEPT ![t] =
             [@ EXCEPT !.row = <<v>>, !.nrows = 1, !.count = @ + v]]
    /\ UNCHANGED notRegionVars
    /\ UNCHANGED <<cover, client, regionPc, awaited, imageCount, results,
                   resultsClosed, regionRet, panicked, queried, received>>

\* err := rows.Next(&row) with err == iterator.Done: channel <- count; break
TaskNextDone(t) ==
    /\ ~panicked
    /\ tasks[t].pc = "next" /\ tasks[t].rows = "ok" /\ tasks[t].nrows = 1
    /\ tasks' = [tasks EXCEPT ![t].pc = "sendCount"]
    /\ UNCHANGED notRegionVars
    /\ UNCHANGED <<cover, client, regionPc, awaited, imageCount, results,
                   resultsClosed, regionRet, panicked, queried, received>>

\* err := rows.Next(&row) with another error: errors <- err (no return follows)
TaskNextErr(t) ==
    /\ ~panicked
    /\ tasks[t].pc = "next" /\ tasks[t].rows = "ok"
    /\ tasks' = [tasks EXCEPT ![t] =
          [@ EXCEPT !.pc = "sendNextErr", !.failed = TRUE,
                    !.errv = [kind |-> "nextError", task |-> t]]]
    /\ UNCHANGED notRegionVars
    /\ UNCHANGED <<cover, client, regionPc, awaited, imageCount, results,
                   resultsClosed, regionRet, panicked, queried, received>>

\* After `errors <- err` in the loop: imgCount := int(row[0].(int64)) on the row
\* as the last successful Next left it; an empty row is an index out of range.
TaskUseRow(t) ==
    /\ ~panicked
    /\ tasks[t].pc = "useRow"
    /\ IF tasks[t].row = <<>>
       THEN /\ panicked' = TRUE
            /\ tasks' = tasks
       ELSE /\ panicked' = panicked
            /\ tasks' = [tasks EXCEPT ![t] =
                  [@ EXCEPT !.count = @ + tasks[t].row[1], !.pc = "next"]]
    /\ UNCHANGED notRegionVars
    /\ UNCHANGED <<cover, client, regionPc, awaited, imageCount, results,
                   resultsClosed, regionRet, queried, received>>

\* channel <- count on the buffered channel of capacity len(cover); a send on
\* the closed channel panics.
TaskSendCount(t) ==
    /\ ~panicked
    /\ tasks[t].pc = "sendCount"
    /\ IF resultsClosed
       THEN /\ panicked' = TRUE
            /\ UNCHANGED <<tasks, results>>
       ELSE /\ Len(results) < ResultsCap(cover)
            /\ results' = Append(results, tasks[t].count)
            /\ tasks' = [tasks EXCEPT ![t] = [@ EXCEPT !.pc = "done", !.sent = @ + 1]]
            /\ panicked' = panicked
    /\ UNCHANGED notRegionVars
    /\ UNCHANGED <<cover, client, regionPc, awaited, imageCount, resultsClosed,
                   regionRet, queried, received>>

RegionNext ==
    \/ RegionNewClient
    \/ RegionSpawn
    \/ RegionRecvCount
    \/ RegionClose
    \/ \E t \in 1..Len(tasks) : RegionRecvErr(t)
    \/ \E t \in 1..Len(tasks) : TaskRead(t)
    \/ \E t \in 1..Len(tasks) : TaskNextNil(t)
    \/ \E t \in 1..Len(tasks) : TaskNextRow(t)
    \/ \E t \in 1..Len(tasks) : TaskNextDone(t)
    \/ \E t \in 1..Len(tasks) : TaskNextErr(t)
    \/ \E t \in 1..Len(tasks) : TaskUseRow(t)
    \/ \E t \in 1..Len(tasks) : TaskSendCount(t)

\* The dispatcher variables while another specification runs.
RegionIdle ==
    /\ cover = <<>> /\ client = "unset" /\ regionPc = "idle" /\ tasks = <<>>
    /\ awaited = 0 /\ imageCount = 0 /\ results = <<>> /\ resultsClosed = FALSE
    /\ regionRet = [count |-> 0, err |-> Nil] /\ panicked = FALSE
    /\ queried = <<>> /\ received = <<>>


\* ====================================================================
\* pool / worker (project 3) and area / worker (project 2)
\* ====================================================================

\* DefaultRetry(): RequestRetrySession{MaxRetries: 5, Duration: 10}
MaxRetries == 5

\* The links a request's list is drawn from.
LinkIds == 1..MaxLinks

\* strings.SplitAfter(imgLink, "gcp-public-data-sentinel-2"), strings.Trim(.., "/")
SplitLink(l) == [bucketName |-> "gcp-public-data-sentinel-2", imageObject |-> <<"IMG_DATA", l>>]

\* The names the bucket iterator yields under a prefix: link l holds l objects.
ObjectNames(l) == [k \in 1..l |-> <<"object", l, k>>]

\* getImagesFromBucket without error: bucketName + "/" + attrs.Name per object
ImagesFromBucket(l) ==
    [k \in 1..l |-> <<SplitLink(l).bucketName, "/", ObjectNames(l)[k]>>]

\* retry(attempts, sleep, callback) run to its end for a callback that fails
\* k more times (Always: every time): iv is i, n the invocations already made.
RECURSIVE RetryLoop(_, _, _, _)
RetryLoop(att, k, iv, n) ==
    LET e == IF k = Always \/ k > 0 THEN n + 1 ELSE 0 IN
    IF e = 0 THEN [ret |-> Nil, calls |-> n + 1]
    ELSE IF Exhausted(iv, att) THEN [ret |-> Errorf(att, e), calls |-> n + 1]
    ELSE RetryLoop(att, IF k = Always THEN k ELSE k - 1, iv + 1, n + 1)

\* The body of the project 3 worker's loop for a listing that fails on its
\* first `fails` invocations: result, err := getImagesFromBucket(...);
\* if err != nil { err := retry(...); if err != nil { folderImages.Error = err } }
\* folderImages.Links = result
ListWithRetry(folder, l, fails) ==
    IF fails = 0
    THEN [Links |-> ImagesFromBucket(l), Error |-> folder.Error, calls |-> 1]
    ELSE LET r == RetryLoop(MaxRetries, fails - 1, 0, 0) IN
         IF r.ret = Nil
         THEN [Links |-> ImagesFromBucket(l), Error |-> folder.Error, calls |-> 1 + r.calls]
         ELSE [Links |-> <<>>, Error |-> r.ret, calls |-> 1 + r.calls]

WorkersToStartPerJob(n) == n

\* for i := 0; i <= numberOfJobs; i++ { go worker(...) }
WorkersToStart(n) == n + 1

NextJobFirst(ls, sent) == ls[1]

\* for _, imgLink := range links { jobs <- imgLink }: the link of this iteration
NextJob(ls, sent) == ls[sent + 1]

ResultsToCollectPerJob(n) == n

\* for i := 0; i <= numberOfJobs; i++ { result := <-results ... }
ResultsToCollect(n) == n + 1

\* make(chan string) / make(chan Result) in pool;
\* make(chan string, numberOfJobs) / make(chan Links, numberOfJobs) in area
ChanCap == IF variant = "area" THEN Len(links) ELSE 0

\* imageResult.Links = append(imageResult.Links, result.Links...)
AppendLinks(res, r) == [res EXCEPT !.Links = res.Links \o r.Links]

NewWorker == [pc |-> "range", job |-> 0, folderImages |-> [Links |-> <<>>, Error |-> Nil]]

\* Strictly increasing sequences of link ids (distinct links).
LinkLists ==
    {ls \in UNION {[1..n -> LinkIds] : n \in 0..MaxLinks} :
        \A a \in 1..Len(ls), b \in 1..Len(ls) : a < b => ls[a] < ls[b]}

PoolInit ==
    /\ variant \in {"pool", "area"}
    /\ links \in LinkLists
    /\ storage = "unset"
    /\ poolPc = "newClient"
    /\ workers = <<>>
    /\ jobsSent = 0
    /\ jobs = <<>>
    /\ jobsClosed = FALSE
    /\ poolResults = <<>>
    /\ poolResultsClosed = FALSE
    /\ collected = 0
    /\ imageResult = [Links |-> <<>>, Error |-> Nil]
    /\ crashed = "no"
    /\ listings = [l \in LinkIds |-> <<>>]

\* pool: client, err := storage.NewClient(r.Context());
\* if err != nil { imageResult.Error = err; return imageResult }
\* (area creates no client of its own: getImagesFromBucket does, per call)
PoolNewClient ==
    /\ poolPc = "newClient" /\ crashed = "no"
    /\ \E ok \in BOOLEAN :
          IF ok \/ variant = "area"
          THEN /\ storage' = "ok"
               /\ poolPc' = "start"
               /\ imageResult' = imageResult
          ELSE /\ storage' = "err"
               /\ poolPc' = "returned"
               /\ imageResult' = [imageResult EXCEPT !.Error = [kind |-> "clientError"]]
    /\ UNCHANGED notPoolVars
    /\ UNCHANGED <<variant, links, workers, jobsSent, jobs, jobsClosed, poolResults,
                   poolResultsClosed, collected, crashed, listings>>

\* for i := 0; i <= numberOfJobs; i++ { go worker(client, r, jobs, results) }
PoolStartWorker ==
    /\ poolPc = "start" /\ crashed = "no"
    /\ IF Len(workers) < WorkersToStart(Len(links))
       THEN /\ workers' = Append(workers, NewWorker)
            /\ poolPc' = poolPc
       ELSE /\ workers' = workers
            /\ poolPc' = "send"
    /\ UNCHANGED notPoolVars
    /\ UNCHANGED <<variant, links, storage, jobsSent, jobs, jobsClosed, poolResults,
                   poolResultsClosed, collected, imageResult, crashed, listings>>

\* jobs <- imgLink on the unbuffered channel, meeting worker w's receive
PoolSendJobTo(w) ==
    /\ poolPc = "send" /\ crashed = "no"
    /\ ChanCap = 0
    /\ jobsSent < Len(links)
    /\ workers[w].pc = "range"
    /\ workers' = [workers EXCEPT ![w] = [@ EXCEPT !.pc = "list", !.job = NextJob(links, jobsSent)]]
    /\ jobsSent' = jobsSent + 1
    /\ UNCHANGED notPoolVars
    /\ UNCHANGED <<variant, links, storage, poolPc, jobs, jobsClosed, poolResults,
                   poolResultsClosed, collected, imageResult, crashed, listings>>

\* jobs <- imgLink on the buffered channel
PoolSendJob ==
    /\ poolPc = "send" /\ crashed = "no"
    /\ jobsSent < Len(links)
    /\ Len(jobs) < ChanCap
    /\ jobs' = Append(jobs, NextJob(links, jobsSent))
    /\ jobsSent' = jobsSent + 1
    /\ UNCHANGED notPoolVars
    /\ UNCHANGED <<variant, links, storage, poolPc, workers, jobsClosed, poolResults,
                   poolResultsClosed, collected, imageResult, crashed, listings>>

\* close(jobs)
PoolCloseJobs ==
    /\ poolPc = "send" /\ crashed = "no"
    /\ jobsSent = Len(links)
    /\ jobsClosed' = TRUE
    /\ poolPc' = "collect"
    /\ UNCHANGED notPoolVars
    /\ UNCHANGED <<variant, links, storage, workers, jobsSent, jobs, poolResults,
                   poolResultsClosed, collected, imageResult, crashed, listings>>

\* for imgLink := range jobs: a buffered job is received
WorkerRecvJob(w) ==
    /\ crashed = "no"
    /\ workers[w].pc = "range"
    /\ jobs # <<>>
    /\ workers' = [workers EXCEPT ![w] = [@ EXCEPT !.pc = "list", !.job = Head(jobs)]]
    /\ jobs' = Tail(jobs)
    /\ UNCHANGED notPoolVars
    /\ UNCHANGED <<variant, links, storage, poolPc, jobsSent, jobsClosed, poolResults,
                   poolResultsClosed, collected, imageResult, crashed, listings>>

\* for imgLink := range jobs: the channel is closed and empty, the loop ends
WorkerRangeEnd(w) ==
    /\ crashed = "no"
    /\ workers[w].pc = "range"
    /\ jobsClosed /\ jobs = <<>>
    /\ workers' = [workers EXCEPT ![w].pc = "send"]
    /\ UNCHANGED notPoolVars
    /\ UNCHANGED <<variant, links, storage, poolPc, jobsSent, jobs, jobsClosed,
                   poolResults, poolResultsClosed, collected, imageResult, crashed,
                   listings>>

\* project 3 worker, loop body: the listing and, after a failure, its retries
WorkerList(w) ==
    /\ crashed = "no" /\ variant = "pool"
    /\ workers[w].pc = "list"
    /\ \E fails \in 0..(MaxRetries + 1) :
          LET out == ListWithRetry(workers[w].folderImages, workers[w].job, fails) IN
          /\ workers' = [workers EXCEPT ![w] =
                [@ EXCEPT !.pc = "range",
                          !.folderImages = [Links |-> out.Links, Error |-> out.Error]]]
          /\ listings' = [listings EXCEPT ![workers[w].job] = Append(@,
                <<w, IF fails = 0 THEN "ok"
                     ELSE IF fails <= MaxRetries THEN "retried" ELSE "exhausted">>)]
    /\ UNCHANGED notPoolVars
    /\ UNCHANGED <<variant, links, storage, poolPc, jobsSent, jobs, jobsClosed,
                   poolResults, poolResultsClosed, collected, imageResult, crashed>>

\* project 2 worker, loop body: result, err := getImagesFromBucket(...);
\* a failure ends the process (log.Fatalln); folderImages = result
AreaWorkerList(w) ==
    /\ crashed = "no" /\ variant = "area"
    /\ workers[w].pc = "list"
    /\ \E ok \in BOOLEAN :
          IF ok
          THEN /\ workers' = [workers EXCEPT ![w] =
                     [@ EXCEPT !.pc = "range",
                               !.folderImages = [Links |-> ImagesFromBucket(workers[w].job),
                                                 Error |-> Nil]]]
               /\ listings' = [listings EXCEPT ![workers[w].job] = Append(@, <<w, "ok">>)]
               /\ crashed' = crashed
          ELSE /\ crashed' = "fatal"
               /\ UNCHANGED <<workers, listings>>
    /\ UNCHANGED notPoolVars
    /\ UNCHANGED <<variant, links, storage, poolPc, jobsSent, jobs, jobsClosed,
                   poolResults, poolResultsClosed, collected, imageResult>>

\* results <- folderImages: a send on the closed channel panics; otherwise the
\* value is buffered when there is room (an unbuffered channel has none: the
\* send then completes in PoolCollectFrom)
WorkerSendResult(w) ==
    /\ crashed = "no"
    /\ workers[w].pc = "send"
    /\ IF poolResultsClosed
       THEN /\ crashed' = "panic"
            /\ UNCHANGED <<workers, poolResults>>
       ELSE /\ Len(poolResults) < ChanCap
            /\ poolResults' = Append(poolResults, workers[w].folderImages)
            /\ workers' = [workers EXCEPT ![w].pc = "done"]
            /\ crashed' = crashed
    /\ UNCHANGED notPoolVars
    /\ UNCHANGED <<variant, links, storage, poolPc, jobsSent, jobs, jobsClosed,
                   poolResultsClosed, collected, imageResult, listings>>

\* result := <-results meeting worker w's send on the unbuffered channel;
\* imageResult.Links = append(imageResult.Links, result.Links...)
PoolCollectFrom(w) ==
    /\ poolPc = "collect" /\ crashed = "no"
    /\ ChanCap = 0
    /\ collected < ResultsToCollect(Len(links))
    /\ workers[w].pc = "send"
    /\ imageResult' = AppendLinks(imageResult, workers[w].folderImages)
    /\ workers' = [workers EXCEPT ![w].pc = "done"]
    /\ collected' = collected + 1
    /\ UNCHANGED notPoolVars
    /\ UNCHANGED <<variant, links, storage, poolPc, jobsSent, jobs, jobsClosed,
                   poolResults, poolResultsClosed, crashed, listings>>

\* imageResult = append(imageResult, <-results...) from the buffered channel
PoolCollect ==
    /\ poolPc = "collect" /\ crashed = "no"
    /\ collected < ResultsToCollect(Len(links))
    /\ poolResults # <<>>
    /\ imageResult' = AppendLinks(imageResult, Head(poolResults))
    /\ poolResults' = Tail(poolResults)
    /\ collected' = collected + 1
    /\ UNCHANGED notPoolVars
    /\ UNCHANGED <<variant, links, storage, poolPc, workers, jobsSent, jobs, jobsClosed,
                   poolResultsClosed, crashed, listings>>

\* close(results); return imageResult
PoolReturn ==
    /\ poolPc = "collect" /\ crashed = "no"
    /\ collected = ResultsToCollect(Len(links))
    /\ poolResultsClosed' = TRUE
    /\ poolPc' = "returned"
    /\ UNCHANGED notPoolVars
    /\ UNCHANGED <<variant, links, storage, workers, jobsSent, jobs, jobsClosed,
                   poolResults, collected, imageResult, crashed, listings>>

PoolNext ==
    \/ PoolNewClient
    \/ PoolStartWorker
    \/ PoolSendJob
    \/ PoolCloseJobs
    \/ PoolCollect
    \/ PoolReturn
    \/ \E w \in 1..Len(workers) : PoolSendJobTo(w)
    \/ \E w \in 1..Len(workers) : PoolCollectFrom(w)
    \/ \E w \in 1..Len(workers) : WorkerRecvJob(w)
    \/ \E w \in 1..Len(workers) : WorkerRangeEnd(w)
    \/ \E w \in 1..Len(workers) : WorkerList(w)
    \/ \E w \in 1..Len(workers) : AreaWorkerList(w)
    \/ \E w \in 1..Len(workers) : WorkerSendResult(w)

\* The pool variables while another specification runs.
PoolIdle ==
    /\ variant = "pool" /\ links = <<>> /\ storage = "unset" /\ poolPc = "idle"
    /\ workers = <<>> /\ jobsSent = 0 /\ jobs = <<>> /\ jobsClosed = FALSE
    /\ poolResults = <<>> /\ poolResultsClosed = FALSE /\ collected = 0
    /\ imageResult = [Links |-> <<>>, Error |-> Nil] /\ crashed = "no"
    /\ listings = [l \in LinkIds |-> <<>>]

\* ====================================================================
\* worker / parse: one operation, called directly and then through retry
\* ====================================================================

\* DefaultRetry(): RequestRetrySession{MaxRetries: 5, Duration: 10}
DefaultDuration == 10

DefaultRetry == NewRetry(MaxRetries, DefaultDuration)

ListInit ==
    /\ lCaller \in {"worker", "parse"}
    /\ lDirect = "pending"

\* worker: result, err := getImagesFromBucket(...); if err != nil { err := retry(
\*   DefaultRetry().MaxRetries, DefaultRetry().Duration*time.Second, ...) }
\* parse:  resp, err := client.Get(request); if err != nil { err := retry(...) }
\* The direct call; when it fails retry is entered with the default session's
\* fields and a callback that repeats the call.
ListDirect ==
    /\ lDirect = "pending"
    /\ \E ok \in BOOLEAN :
          IF ok
          THEN /\ lDirect' = "ok"
               /\ UNCHANGED retryVars
          ELSE /\ lDirect' = "failed"
               /\ session' = DefaultRetry
               /\ attempts' = CallArgs(DefaultRetry).attempts
               /\ baseDelay' = CallArgs(DefaultRetry).sleep
               /\ sleep' = CallArgs(DefaultRetry).sleep
               /\ plan' \in {Always} \cup (0..MaxRetries)
               /\ i' = 0
               /\ err' = 0
               /\ retryPc' = "callback"
               /\ retryRet' = Nil
               /\ calls' = 0
               /\ slept' = <<>>
               /\ round' = 1
               /\ UNCHANGED <<prevSleep, ctxDoneAt>>
    /\ UNCHANGED notListOrRetryVars
    /\ UNCHANGED lCaller

ListNext == ListDirect \/ RetryCallback \/ RetrySleep

\* The variables of the direct call while another specification runs.
ListIdle == lCaller = "none" /\ lDirect = "idle"

\* ====================================================================
\* geo / regionCover
\* ====================================================================

\* http.StatusBadRequest, http.StatusInternalServerError, http.StatusOK
StatusBadRequest == 400
StatusInternalServerError == 500
StatusOK == 200

\* http.Error(w, e.Message, e.Code) in appHandler.ServeHTTP
HttpError(message, code) == [code |-> code, body |-> message]

\* The []float64 values parse can return: every sequence of at most MaxCoords
\* numbers, of even or odd length.
CoordSeqs == UNION {[1..n -> 0..MaxCoord] : n \in 0..MaxCoords}

\* s2.PointFromLatLng(s2.LatLngFromDegrees(lat, lng))
PointFromLatLng(lat, lng) == <<"point", lat, lng>>

PairPointSwapped(cs) == PointFromLatLng(cs[2], cs[1])

\* lat, lng := coords[0], coords[1]; p := s2.PointFromLatLng(...)
PairPoint(cs) == PointFromLatLng(cs[1], cs[2])

\* coords = coords[2:]
RestCoords(cs) == SubSeq(cs, 3, Len(cs))

AfterErrorNextStage(pc) ==
    IF pc = "parse" THEN "pair" ELSE IF pc = "count" THEN "encode" ELSE "done"

\* return &appError{...}: geo is over, whichever stage pc failed
AfterError(pc) == "done"

GeoInit ==
    /\ geoCountry \in {"", "denmark"}
    /\ geoPc = "parseForm"
    /\ geoInput = <<>>
    /\ coords = <<>>
    /\ points = <<>>
    /\ geoLoop = <<>>
    /\ geoCover = <<>>
    /\ geoSpawned = 0
    /\ geoCount = 0
    /\ geoResponse = NoResponse
    /\ geoStages = <<>>

\* if err := r.ParseForm(); err != nil || !(len(r.Form.Get("country")) > 0)
GeoParseForm ==
    /\ geoPc = "parseForm"
    /\ \E formOk \in BOOLEAN :
          IF ~formOk \/ geoCountry = ""
          THEN /\ geoResponse' = HttpError("Could not parse specified country location.",
                                          StatusBadRequest)
               /\ geoPc' = AfterError(geoPc)
          ELSE /\ geoResponse' = geoResponse
               /\ geoPc' = "parse"
    /\ UNCHANGED notGeoVars
    /\ UNCHANGED <<geoCountry, geoInput, coords, points, geoLoop, geoCover,
                   geoSpawned, geoCount, geoStages>>

\* coords, err := parse(r, country, continent): an error, or the numbers found
\* in the fetched body, however many they are, which are then passed on in
\* cover := regionCover(coords, 15, 100).
GeoParse ==
    /\ geoPc = "parse"
    /\ \/ /\ geoResponse' = HttpError("Could not fetch PSLG data",
                                       StatusInternalServerError)
          /\ geoPc' = AfterError(geoPc)
          /\ geoStages' = Append(geoStages, <<"parse">>)
          /\ UNCHANGED <<geoInput, coords>>
       \/ \E cs \in CoordSeqs :
             /\ geoInput' = cs
             /\ coords' = cs
             /\ geoPc' = "pair"
             /\ geoResponse' = geoResponse
             /\ geoStages' = geoStages \o <<<<"parse">>, <<"regionCover", 15, 100>>>>
    /\ UNCHANGED notGeoVars
    /\ UNCHANGED <<geoCountry, points, geoLoop, geoCover, geoSpawned, geoCount>>

\* One iteration of `for len(coords) > 0`: with a single element left,
\* coords[1] is an index out of range and the handler goroutine panics.
CoverPair ==
    /\ geoPc = "pair"
    /\ Len(coords) > 0
    /\ IF Len(coords) = 1
       THEN /\ geoPc' = "panicked"
            /\ UNCHANGED <<coords, points>>
       ELSE /\ points' = Append(points, PairPoint(coords))
            /\ coords' = RestCoords(coords)
            /\ geoPc' = geoPc
    /\ UNCHANGED notGeoVars
    /\ UNCHANGED <<geoCountry, geoInput, geoLoop, geoCover, geoSpawned, geoCount,
                   geoResponse, geoStages>>

\* l1 := s2.LoopFromPoints(points); ...; cover := rc.Covering(poly); return cover
\* regionCover has no error result: whatever the points are, a cell union (of
\* the s2 library's choosing) comes back.
CoverLoop ==
    /\ geoPc = "pair"
    /\ Len(coords) = 0
    /\ geoLoop' = points
    /\ geoCover' \in Covers
    /\ geoPc' = "count"
    /\ UNCHANGED notGeoVars
    /\ UNCHANGED <<geoCountry, geoInput, coords, points, geoSpawned, geoCount,
                   geoResponse, geoStages>>

\* imageCount, err := imagesByRegion(cover, r): no client and no task, or one
\* task per cell and then the first error or 13 times the sum of the counts.
GeoImagesByRegion ==
    /\ geoPc = "count"
    /\ \/ /\ geoSpawned' = 0
          /\ geoCount' = geoCount
          /\ geoResponse' = HttpError("Could not get granules", StatusInternalServerError)
          /\ geoPc' = AfterError(geoPc)
       \/ /\ Len(geoCover) > 0
          /\ geoSpawned' = Len(geoCover)
          /\ geoCount' = geoCount
          /\ geoResponse' = HttpError("Could not get granules", StatusInternalServerError)
          /\ geoPc' = AfterError(geoPc)
       \/ \E total \in 0..(IF Len(geoCover) = 0 THEN 0 ELSE MaxCount) :
             /\ geoSpawned' = Len(geoCover)
             /\ geoCount' = CountReturn(total).count
             /\ geoResponse' = geoResponse
             /\ geoPc' = "encode"
    /\ geoStages' = Append(geoStages, <<"imagesByRegion">>)
    /\ UNCHANGED notGeoVars
    /\ UNCHANGED <<geoCountry, geoInput, coords, points, geoLoop, geoCover>>

\* encodeErr := json.NewEncoder(w).Encode(imageCount); ...; return nil
GeoEncode ==
    /\ geoPc = "encode"
    /\ \E ok \in BOOLEAN :
          geoResponse' = IF ok THEN [code |-> StatusOK, body |-> geoCount]
                         ELSE HttpError("Unable to find region cover",
                                        StatusInternalServerError)
    /\ geoPc' = "done"
    /\ geoStages' = Append(geoStages, <<"encode">>)
    /\ UNCHANGED notGeoVars
    /\ UNCHANGED <<geoCountry, geoInput, coords, points, geoLoop, geoCover,
                   geoSpawned, geoCount>>

GeoNext ==
    \/ GeoParseForm
    \/ GeoParse
    \/ CoverPair
    \/ CoverLoop
    \/ GeoImagesByRegion
    \/ GeoEncode

\* The geo variables while another specification runs.
GeoIdle ==
    /\ geoCountry = "" /\ geoPc = "idle" /\ geoInput = <<>> /\ coords = <<>>
    /\ points = <<>> /\ geoLoop = <<>> /\ geoCover = <<>> /\ geoSpawned = 0
    /\ geoCount = 0 /\ geoResponse = NoResponse /\ geoStages = <<>>

\* ====================================================================
\* images / area handlers
\* ====================================================================

\* Strings are sequences of one-character strings.
Digits == {"0", "1", "2", "3", "4", "5", "6", "7", "8", "9"}

\* [-+]? : the text after an optional leading sign
Unsigned(str) == IF Len(str) > 0 /\ str[1] \in {"-", "+"} THEN Tail(str) ELSE str

\* Position of the first "." of s, 0 when it has none.
DotAt(s) ==
    IF \E k \in 1..Len(s) : s[k] = "."
    THEN CHOOSE k \in 1..Len(s) : s[k] = "." /\ \A j \in 1..(k - 1) : s[j] # "."
    ELSE 0

IntPart(s) == IF DotAt(s) = 0 THEN s ELSE SubSeq(s, 1, DotAt(s) - 1)

FracPart(s) == IF DotAt(s) = 0 THEN <<>> ELSE SubSeq(s, DotAt(s) + 1, Len(s))

\* (\.\d+)? with set = Digits, (\.0+)? with set = {"0"}, up to the end of text
OptFraction(s, set) ==
    \/ DotAt(s) = 0
    \/ /\ Len(FracPart(s)) >= 1
       /\ \A k \in 1..Len(FracPart(s)) : FracPart(s)[k] \in set

\* regexp.MustCompile(Latitude).MatchString(str),
\* Latitude = "^[-+]?([1-8]?\d(\.\d+)?|90(\.0+)?)$"
MatchLatitude(str) ==
    LET s == Unsigned(str)
        n == IntPart(s)
    IN  \/ /\ \/ Len(n) = 1 /\ n[1] \in Digits
              \/ Len(n) = 2 /\ n[1] \in (Digits \ {"0", "9"}) /\ n[2] \in Digits
           /\ OptFraction(s, Digits)
        \/ n = <<"9", "0">> /\ OptFraction(s, {"0"})

\* regexp.MustCompile(Longitude).MatchString(str),
\* Longitude = "^[-+]?(180(\.0+)?|((1[0-7]\d)|([1-9]?\d))(\.\d+)?)$"
MatchLongitude(str) ==
    LET s == Unsigned(str)
        n == IntPart(s)
    IN  \/ n = <<"1", "8", "0">> /\ OptFraction(s, {"0"})
        \/ /\ \/ Len(n) = 3 /\ n[1] = "1" /\ n[2] \in (Digits \ {"8", "9"})
                 /\ n[3] \in Digits
              \/ Len(n) = 1 /\ n[1] \in Digits
              \/ Len(n) = 2 /\ n[1] \in (Digits \ {"0"}) /\ n[2] \in Digits
           /\ OptFraction(s, Digits)

\* Form values: absent (""), "91" and "55.660797".
Samples == {<<>>, <<"9", "1">>, <<"5", "5", ".", "6", "6", "0", "7", "9", "7">>}

\* Locations the geocoding service answers with, in whole degrees.
Locations == {[Lat |-> 55, Lng |-> 12], [Lat |-> 0 - 33, Lng |-> 151]}

DigitChars == <<"0", "1", "2", "3", "4", "5", "6", "7", "8", "9">>

RECURSIVE Itoa(_)
Itoa(n) == IF n < 10 THEN <<DigitChars[n + 1]>>
           ELSE Itoa(n \div 10) \o <<DigitChars[(n % 10) + 1]>>

\* strconv.FormatFloat(f, 'f', 6, 64) of a whole number of degrees
FormatFloat(f) ==
    (IF f < 0 THEN <<"-">> \o Itoa(0 - f) ELSE Itoa(f))
        \o <<".", "0", "0", "0", "0", "0", "0">>

\* return "", "", err
NoCoords == [lat |-> <<>>, lng |-> <<>>]

\* lat := strconv.FormatFloat(res.Results[0].Geometry.Location.Lat, 'f', 6, 64)
\* lng := strconv.FormatFloat(res.Results[0].Geometry.Location.Lng, 'f', 6, 64)
\* return lat, lng, nil
Converted(loc) == [lat |-> FormatFloat(loc.Lat), lng |-> FormatFloat(loc.Lng)]

CoordSourceFormFirst(failed, conv, f) ==
    IF failed \/ f.lat # <<>> THEN [lat |-> f.lat, lng |-> f.lng] ELSE conv

\* lat, lng, err := convertAddressToCoords(address, r)
\* if err != nil { lat, lng = r.Form.Get("lat"), r.Form.Get("lng") }
CoordSource(failed, conv, f) ==
    IF failed THEN [lat |-> f.lat, lng |-> f.lng] ELSE conv

\* if !validLat && !validLng
ImagesInvalid(lat, lng) == ~MatchLatitude(lat) /\ ~MatchLongitude(lng)

AreaInvalidAll(lat1, lng1, lat2, lng2) ==
    ~MatchLatitude(lat1) /\ ~MatchLatitude(lat2)
        /\ ~MatchLongitude(lng1) /\ ~MatchLongitude(lng2)

\* if !...MatchString(lat1) || !...MatchString(lat2) || !...MatchString(lng1)
\*    || !...MatchString(lng2)
AreaInvalid(lat1, lng1, lat2, lng2) ==
    ~MatchLatitude(lat1) \/ ~MatchLatitude(lat2)
        \/ ~MatchLongitude(lng1) \/ ~MatchLongitude(lng2)

NoPoolResult == [Links |-> 0, Error |-> Nil]

HandlerInit ==
    /\ handler \in {"images", "area"}
    /\ form \in IF handler = "images"
                THEN [address : {<<>>, <<"d", "k">>}, lat : Samples, lng : Samples,
                      lat1 : {<<>>}, lng1 : {<<>>}, lat2 : {<<>>}, lng2 : {<<>>}]
                ELSE [address : {<<>>}, lat : {<<>>}, lng : {<<>>},
                      lat1 : Samples, lng1 : Samples, lat2 : Samples, lng2 : Samples]
    /\ hPc = "parseForm"
    /\ hLat = <<>>
    /\ hLng = <<>>
    /\ hQueries = <<>>
    /\ hGeocoded = 0
    /\ hPoolCalls = 0
    /\ hPoolResult = NoPoolResult
    /\ hFailed = {}
    /\ hResponse = NoResponse

\* images: if err := r.ParseForm(); err != nil { return &appError{..., 500} }
ImagesParseForm ==
    /\ handler = "images" /\ hPc = "parseForm"
    /\ \E ok \in BOOLEAN :
          IF ok
          THEN /\ hPc' = "convert"
               /\ UNCHANGED <<hResponse, hFailed>>
          ELSE /\ hPc' = "done"
               /\ hFailed' = hFailed \cup {"parseForm"}
               /\ hResponse' = HttpError("Cannot parse data", StatusInternalServerError)
    /\ UNCHANGED notHandlerVars
    /\ UNCHANGED <<handler, form, hLat, hLng, hQueries, hGeocoded, hPoolCalls,
                   hPoolResult>>

\* lat, lng, err := convertAddressToCoords(address, r)
\* if err != nil { lat, lng = r.Form.Get("lat"), r.Form.Get("lng") }
\* An empty address is refused before any fetch; a fetch or decode error is
\* returned; an answer without results makes res.Results[0] panic.
ImagesConvert ==
    /\ handler = "images" /\ hPc = "convert"
    /\ IF form.address = <<>>
       THEN /\ hLat' = CoordSource(TRUE, NoCoords, form).lat
            /\ hLng' = CoordSource(TRUE, NoCoords, form).lng
            /\ hPc' = "validate"
            /\ UNCHANGED <<hGeocoded, hFailed>>
       ELSE /\ hGeocoded' = hGeocoded + 1
            /\ \/ /\ hLat' = CoordSource(TRUE, NoCoords, form).lat
                  /\ hLng' = CoordSource(TRUE, NoCoords, form).lng
                  /\ hPc' = "validate"
                  /\ hFailed' = hFailed \cup {"geocode"}
               \/ /\ hPc' = "panicked"
                  /\ hFailed' = hFailed \cup {"geocode"}
                  /\ UNCHANGED <<hLat, hLng>>
               \/ \E loc \in Locations :
                     /\ hLat' = CoordSource(FALSE, Converted(loc), form).lat
                     /\ hLng' = CoordSource(FALSE, Converted(loc), form).lng
                     /\ hPc' = "validate"
                     /\ hFailed' = hFailed
    /\ UNCHANGED notHandlerVars
    /\ UNCHANGED <<handler, form, hQueries, hPoolCalls, hPoolResult, hResponse>>

\* validLat, validLng := ...; if !validLat && !validLng { return &appError{..., 400} }
ImagesValidate ==
    /\ handler = "images" /\ hPc = "validate"
    /\ IF ImagesInvalid(hLat, hLng)
       THEN /\ hPc' = "done"
            /\ hResponse' = HttpError("Please provide a valid latitude and longitude",
                                      StatusBadRequest)
       ELSE /\ hPc' = "query"
            /\ hResponse' = hResponse
    /\ UNCHANGED notHandlerVars
    /\ UNCHANGED <<handler, form, hLat, hLng, hQueries, hGeocoded, hPoolCalls,
                   hPoolResult, hFailed>>

\* links, err := getLinks(lat, lng, r); if err != nil { return &appError{..., 500} }
ImagesGetLinks ==
    /\ handler = "images" /\ hPc = "query"
    /\ hQueries' = Append(hQueries, <<"getLinks", hLat, hLng>>)
    /\ \E ok \in BOOLEAN :
          IF ok
          THEN /\ hPc' = "encode"
               /\ UNCHANGED <<hResponse, hFailed>>
          ELSE /\ hPc' = "done"
               /\ hFailed' = hFailed \cup {"query"}
               /\ hResponse' = HttpError("Unable to retrieve links",
                                         StatusInternalServerError)
    /\ UNCHANGED notHandlerVars
    /\ UNCHANGED <<handler, form, hLat, hLng, hGeocoded, hPoolCalls, hPoolResult>>

\* if err := json.NewEncoder(w).Encode(links); err != nil { ... 500 }; return nil
ImagesEncode ==
    /\ handler = "images" /\ hPc = "encode"
    /\ \E ok \in BOOLEAN :
          IF ok
          THEN /\ hResponse' = [code |-> StatusOK, body |-> "links"]
               /\ hFailed' = hFailed
          ELSE /\ hResponse' = HttpError("Unable to map JSON to response",
                                         StatusInternalServerError)
               /\ hFailed' = hFailed \cup {"encode"}
    /\ hPc' = "done"
    /\ UNCHANGED notHandlerVars
    /\ UNCHANGED <<handler, form, hLat, hLng, hQueries, hGeocoded, hPoolCalls,
                   hPoolResult>>

\* area: if err := r.ParseForm(); err != nil { return &appError{..., 500} }
AreaParseForm ==
    /\ handler = "area" /\ hPc = "parseForm"
    /\ \E ok \in BOOLEAN :
          IF ok
          THEN /\ hPc' = "validate"
               /\ UNCHANGED <<hResponse, hFailed>>
          ELSE /\ hPc' = "done"
               /\ hFailed' = hFailed \cup {"parseForm"}
               /\ hResponse' = HttpError("Cannot parse data", StatusInternalServerError)
    /\ UNCHANGED notHandlerVars
    /\ UNCHANGED <<handler, form, hLat, hLng, hQueries, hGeocoded, hPoolCalls,
                   hPoolResult>>

\* lat1, lng1, lat2, lng2 := r.Form.Get(...); the four-way validation, 400
AreaValidate ==
    /\ handler = "area" /\ hPc = "validate"
    /\ IF AreaInvalid(form.lat1, form.lng1, form.lat2, form.lng2)
       THEN /\ hPc' = "done"
            /\ hResponse' = HttpError("Please provide a valid pair of latitude and longitude bands",
                                      StatusBadRequest)
       ELSE /\ hPc' = "query"
            /\ hResponse' = hResponse
    /\ UNCHANGED notHandlerVars
    /\ UNCHANGED <<handler, form, hLat, hLng, hQueries, hGeocoded, hPoolCalls,
                   hPoolResult, hFailed>>

\* links, err := getImageBaseURL(lat1, lng1, lat2, lng2, r); err -> 500
AreaGetImageBaseURL ==
    /\ handler = "area" /\ hPc = "query"
    /\ hQueries' = Append(hQueries, <<"getImageBaseURL", form.lat1, form.lng1,
                                      form.lat2, form.lng2>>)
    /\ \E ok \in BOOLEAN :
          IF ok
          THEN /\ hPc' = "pool"
               /\ UNCHANGED <<hResponse, hFailed>>
          ELSE /\ hPc' = "done"
               /\ hFailed' = hFailed \cup {"query"}
               /\ hResponse' = HttpError("Unable to retrieve granulelinks",
                                         StatusInternalServerError)
    /\ UNCHANGED notHandlerVars
    /\ UNCHANGED <<handler, form, hLat, hLng, hGeocoded, hPoolCalls, hPoolResult>>

\* imageResult := pool(links, r); if err := imageResult.Error; err != nil { 500 }
\* pool sets Result.Error only when storage.NewClient fails; a listing that
\* fails after its retries leaves the error of the Result pool returns nil.
AreaPool ==
    /\ handler = "area" /\ hPc = "pool"
    /\ hPoolCalls' = hPoolCalls + 1
    /\ \/ /\ hPoolResult' = [Links |-> 0, Error |-> [kind |-> "clientError"]]
          /\ hFailed' = hFailed \cup {"storageClient"}
          /\ hResponse' = HttpError("Could not fetch pictures from granules",
                                    StatusInternalServerError)
          /\ hPc' = "done"
       \/ \E n \in 0..MaxLinks, listed \in BOOLEAN :
             /\ hPoolResult' = [Links |-> n, Error |-> Nil]
             /\ hFailed' = IF listed THEN hFailed ELSE hFailed \cup {"listing"}
             /\ hResponse' = hResponse
             /\ hPc' = "encode"
    /\ UNCHANGED notHandlerVars
    /\ UNCHANGED <<handler, form, hLat, hLng, hQueries, hGeocoded>>

\* encodeErr := json.NewEncoder(w).Encode(len(imageResult.Links))
\* if encodeErr != nil { return &appError{err, ..., 500} }; return nil
AreaEncode ==
    /\ handler = "area" /\ hPc = "encode"
    /\ \E ok \in BOOLEAN :
          IF ok
          THEN /\ hResponse' = [code |-> StatusOK, body |-> hPoolResult.Links]
               /\ hFailed' = hFailed
          ELSE /\ hResponse' = HttpError("Unable to encode JSON",
                                         StatusInternalServerError)
               /\ hFailed' = hFailed \cup {"encode"}
    /\ hPc' = "done"
    /\ UNCHANGED notHandlerVars
    /\ UNCHANGED <<handler, form, hLat, hLng, hQueries, hGeocoded, hPoolCalls,
                   hPoolResult>>

HandlerNext ==
    \/ ImagesParseForm
    \/ ImagesConvert
    \/ ImagesValidate
    \/ ImagesGetLinks
    \/ ImagesEncode
    \/ AreaParseForm
    \/ AreaValidate
    \/ AreaGetImageBaseURL
    \/ AreaPool
    \/ AreaEncode

\* The handler variables while another specification runs.
HandlerIdle ==
    /\ handler = "none" /\ form = <<>> /\ hPc = "idle" /\ hLat = <<>> /\ hLng = <<>>
    /\ hQueries = <<>> /\ hGeocoded = 0 /\ hPoolCalls = 0
    /\ hPoolResult = NoPoolResult /\ hFailed = {} /\ hResponse = NoResponse

\* ====================================================================
\* appHandler.ServeHTTP
\* ====================================================================

\* context.WithTimeout(ctx, 5*time.Minute), in minutes
Timeout == 5

\* No context with a deadline exists yet.
NoDeadline == 0 - 1

\* The *appError values the handlers images, area and geo return.
AppErrors ==
    {[Message |-> "Cannot parse data", Code |-> StatusInternalServerError],
     [Message |-> "Please provide a valid latitude and longitude",
      Code |-> StatusBadRequest],
     [Message |-> "Unable to retrieve links", Code |-> StatusInternalServerError],
     [Message |-> "Unable to map JSON to response", Code |-> StatusInternalServerError],
     [Message |-> "Please provide a valid pair of latitude and longitude bands",
      Code |-> StatusBadRequest],
     [Message |-> "Unable to retrieve granulelinks", Code |-> StatusInternalServerError],
     [Message |-> "Could not fetch pictures from granules",
      Code |-> StatusInternalServerError],
     [Message |-> "Unable to encode JSON", Code |-> StatusInternalServerError],
     [Message |-> "Could not parse specified country location.",
      Code |-> StatusBadRequest],
     [Message |-> "Could not fetch PSLG data", Code |-> StatusInternalServerError],
     [Message |-> "Could not get granules", Code |-> StatusInternalServerError],
     [Message |-> "Unable to find region cover", Code |-> StatusInternalServerError]}

ErrorResponseInternal(e) == HttpError(e.Message, StatusInternalServerError)

\* http.Error(w, err.Message, err.Code)
ErrorResponse(e) == HttpError(e.Message, e.Code)

\* The state of a context with deadline d at minute t.
Expire(done, d, t) == IF done = "no" /\ t >= d THEN "deadline" ELSE done

ServeInit ==
    /\ sPc = "start"
    /\ sClock \in 0..1
    /\ sDeadline = NoDeadline
    /\ sCtxDone = "no"
    /\ sErr = Nil
    /\ sResponse = NoResponse
    /\ sCancelCalls = 0
    /\ sBodyClosed = FALSE

\* w.Header().Set(...); ctx := appengine.NewContext(r)
\* ctxWithDeadline, cancel := context.WithTimeout(ctx, 5*time.Minute)
\* and the call fn(w, r.WithContext(ctxWithDeadline)) begins.
ServeStart ==
    /\ sPc = "start"
    /\ sDeadline' = sClock + Timeout
    /\ sPc' = "handler"
    /\ UNCHANGED notServeVars
    /\ UNCHANGED <<sClock, sCtxDone, sErr, sResponse, sCancelCalls, sBodyClosed>>

\* A minute passes while the wrapped handler or ServeHTTP runs; the context's
\* timer fires at the deadline.
ServeTick ==
    /\ sPc \in {"handler", "error", "defer"}
    /\ sClock < MaxMinutes
    /\ sClock' = sClock + 1
    /\ sCtxDone' = Expire(sCtxDone, sDeadline, sClock + 1)
    /\ UNCHANGED notServeVars
    /\ UNCHANGED <<sPc, sDeadline, sErr, sResponse, sCancelCalls, sBodyClosed>>

\* err := fn(w, r.WithContext(ctxWithDeadline)) returns: nil after the handler
\* encoded its result, or an *appError with nothing written.
ServeHandlerReturns ==
    /\ sPc = "handler"
    /\ \/ /\ sErr' = Nil
          /\ sResponse' = [code |-> StatusOK, body |-> "result"]
       \/ /\ sErr' \in AppErrors
          /\ sResponse' = sResponse
    /\ sPc' = "error"
    /\ UNCHANGED notServeVars
    /\ UNCHANGED <<sClock, sDeadline, sCtxDone, sCancelCalls, sBodyClosed>>

\* The wrapped handler panics (regionCover, convertAddressToCoords): ServeHTTP
\* unwinds before its defer statements are reached.
ServeHandlerPanics ==
    /\ sPc = "handler"
    /\ sPc' = "panicked"
    /\ UNCHANGED notServeVars
    /\ UNCHANGED <<sClock, sDeadline, sCtxDone, sErr, sResponse, sCancelCalls,
                   sBodyClosed>>

\* if err := fn(...); err != nil { http.Error(w, err.Message, err.Code) }
ServeError ==
    /\ sPc = "error"
    /\ sResponse' = IF sErr # Nil THEN ErrorResponse(sErr) ELSE sResponse
    /\ sPc' = "defer"
    /\ UNCHANGED notServeVars
    /\ UNCHANGED <<sClock, sDeadline, sCtxDone, sErr, sCancelCalls, sBodyClosed>>

\* defer cancel(); defer r.Body.Close(); and the end of the function: the
\* deferred calls run, last registered first.
ServeReturn ==
    /\ sPc = "defer"
    /\ sBodyClosed' = TRUE
    /\ sCancelCalls' = sCancelCalls + 1
    /\ sCtxDone' = IF sCtxDone = "no" THEN "cancel" ELSE sCtxDone
    /\ sPc' = "returned"
    /\ UNCHANGED notServeVars
    /\ UNCHANGED <<sClock, sDeadline, sErr, sResponse>>

ServeNext ==
    \/ ServeStart
    \/ ServeTick
    \/ ServeHandlerReturns
    \/ ServeHandlerPanics
    \/ ServeError
    \/ ServeReturn

\* The ServeHTTP variables while another specification runs.
ServeIdle ==
    /\ sPc = "idle" /\ sClock = 0 /\ sDeadline = NoDeadline /\ sCtxDone = "no"
    /\ sErr = Nil /\ sResponse = NoResponse /\ sCancelCalls = 0
    /\ sBodyClosed = FALSE

\* ====================================================================
\* the index query predicate
\* ====================================================================

\* A comparison `l < r` of a WHERE clause; a side is %[k]s or a column.
Less(l, r) == [l |-> l, r |-> r]

Arg(k) == <<"arg", k>>

Col(name) == <<"col", name>>

CountWhereInOrder ==
    << Less(Arg(2), Col("north_lat")), Less(Col("south_lat"), Arg(3)),
       Less(Arg(4), Col("east_lon")), Less(Col("west_lon"), Arg(5)) >>

\* getImageCount: WHERE %[2]s < north_lat AND south_lat < %[4]s
\*                AND %[3]s < east_lon AND west_lon < %[5]s
CountWhere ==
    << Less(Arg(2), Col("north_lat")), Less(Col("south_lat"), Arg(4)),
       Less(Arg(3), Col("east_lon")), Less(Col("west_lon"), Arg(5)) >>

\* getImageBaseURL: WHERE %[2]s < north_lat AND south_lat < %[4]s
\*                  AND %[3]s < east_lon AND west_lon < %[5]s
BaseURLWhere ==
    << Less(Arg(2), Col("north_lat")), Less(Col("south_lat"), Arg(4)),
       Less(Arg(3), Col("east_lon")), Less(Col("west_lon"), Arg(5)) >>

\* fmt.Sprintf(..., backquote, lat1, lng1, lat2, lng2): %[1]s is the backquote
SprintfArgs(a) == <<"backquote", a.lat1, a.lng1, a.lat2, a.lng2>>

\* The number a spliced-in argument denotes in the SQL text.
ParseNumber(str) == str[2]

\* The value of one side of a comparison for record rec.
Term(side, args, rec) ==
    IF side[1] = "arg" THEN ParseNumber(args[side[2]]) ELSE rec[side[2]]

\* The record satisfies every comparison of the clause.
Selected(where, args, rec) ==
    \A c \in 1..Len(where) :
        Term(where[c].l, args, rec) < Term(where[c].r, args, rec)

\* Latitudes and longitudes of index records: below, on, inside, on and above
\* the bounds of the first cell.
RecordLats ==
    LET rb == RectBound(1) IN
    {rb.lo.lat - 2, rb.lo.lat, rb.lo.lat + 2, rb.hi.lat, rb.hi.lat + 2}

RecordLngs ==
    LET rb == RectBound(1) IN
    {rb.lo.lng - 2, rb.lo.lng, rb.lo.lng + 2, rb.hi.lng, rb.hi.lng + 2}

IndexRecords ==
    {rec \in [south_lat : RecordLats, north_lat : RecordLats,
              west_lon : RecordLngs, east_lon : RecordLngs] :
        rec.south_lat < rec.north_lat /\ rec.west_lon < rec.east_lon}

NoArgs == [lat1 |-> <<>>, lng1 |-> <<>>, lat2 |-> <<>>, lng2 |-> <<>>]

QueryInit ==
    /\ qCell \in CellIds
    /\ qRecord \in IndexRecords
    /\ qArgs = NoArgs
    /\ qPc = "args"
    /\ qCounted = FALSE
    /\ qListed = FALSE

\* go getImageCount(client, r, results, errChan, c.RectBound().Lo().Lat.String(), ...)
QuerySpawn ==
    /\ qPc = "args"
    /\ qArgs' = SpawnArgs(<<qCell>>, 1)
    /\ qPc' = "count"
    /\ UNCHANGED notQueryVars
    /\ UNCHANGED <<qCell, qRecord, qCounted, qListed>>

\* The query of getImageCount, run over the record.
QueryCount ==
    /\ qPc = "count"
    /\ qCounted' = Selected(CountWhere, SprintfArgs(qArgs), qRecord)
    /\ qPc' = "baseURL"
    /\ UNCHANGED notQueryVars
    /\ UNCHANGED <<qCell, qRecord, qArgs, qListed>>

\* The query of getImageBaseURL with the same four arguments, run over the record.
QueryBaseURL ==
    /\ qPc = "baseURL"
    /\ qListed' = Selected(BaseURLWhere, SprintfArgs(qArgs), qRecord)
    /\ qPc' = "done"
    /\ UNCHANGED notQueryVars
    /\ UNCHANGED <<qCell, qRecord, qArgs, qCounted>>

QueryNext == QuerySpawn \/ QueryCount \/ QueryBaseURL

\* The query variables while another specification runs.
QueryIdle ==
    /\ qCell = 0 /\ qRecord = <<>> /\ qArgs = NoArgs /\ qPc = "idle"
    /\ qCounted = FALSE /\ qListed = FALSE

\* ====================================================================
\* area and getImageBaseURL: the two corners
\* ====================================================================

\* A form value that is the decimal text of n degrees.
NumberString(n) == <<"number", n>>

\* The forms of /area: two corners, each coordinate a whole number of degrees.
CornerForms ==
    [lat1 : {NumberString(n) : n \in 0..MaxDegree},
     lng1 : {NumberString(n) : n \in 0..MaxDegree},
     lat2 : {NumberString(n) : n \in 0..MaxDegree},
     lng2 : {NumberString(n) : n \in 0..MaxDegree}]

\* The same request with (lat1, lng1) and (lat2, lng2) exchanged.
SwapCorners(f) == [lat1 |-> f.lat2, lng1 |-> f.lng2, lat2 |-> f.lat1, lng2 |-> f.lng1]

CornerRecords ==
    {rec \in [south_lat : 0..MaxDegree, north_lat : 0..MaxDegree,
              west_lon : 0..MaxDegree, east_lon : 0..MaxDegree] :
        rec.south_lat < rec.north_lat /\ rec.west_lon < rec.east_lon}

AreaArgsOrdered(f) ==
    LET lo(a, b) == IF ParseNumber(a) <= ParseNumber(b) THEN a ELSE b
        hi(a, b) == IF ParseNumber(a) <= ParseNumber(b) THEN b ELSE a
    IN  [lat1 |-> lo(f.lat1, f.lat2), lng1 |-> lo(f.lng1, f.lng2),
         lat2 |-> hi(f.lat1, f.lat2), lng2 |-> hi(f.lng1, f.lng2)]

\* lat1, lng1, lat2, lng2 := r.Form.Get("lat1"), r.Form.Get("lng1"), ...
\* links, err := getImageBaseURL(lat1, lng1, lat2, lng2, r)
AreaArgs(f) == [lat1 |-> f.lat1, lng1 |-> f.lng1, lat2 |-> f.lat2, lng2 |-> f.lng2]

AreaQueryInit ==
    /\ aqCorners \in CornerForms
    /\ aqRecord \in CornerRecords
    /\ aqPc = "first"
    /\ aqArgs = <<>>
    /\ aqSelected = <<>>

\* One request: area passes its four form values and the query of
\* getImageBaseURL is run over the record.
AreaQueryRequest(f) ==
    /\ aqArgs' = Append(aqArgs, AreaArgs(f))
    /\ aqSelected' = Append(aqSelected,
                            Selected(BaseURLWhere, SprintfArgs(AreaArgs(f)), aqRecord))
    /\ UNCHANGED notAreaQueryVars
    /\ UNCHANGED <<aqCorners, aqRecord>>

AreaQueryFirst ==
    /\ aqPc = "first"
    /\ aqPc' = "second"
    /\ AreaQueryRequest(aqCorners)

AreaQuerySwapped ==
    /\ aqPc = "second"
    /\ aqPc' = "done"
    /\ AreaQueryRequest(SwapCorners(aqCorners))

AreaQueryNext == AreaQueryFirst \/ AreaQuerySwapped

\* The variables of the two requests while another specification runs.
AreaQueryIdle ==
    /\ aqCorners = NoArgs /\ aqRecord = <<>> /\ aqPc = "idle" /\ aqArgs = <<>>
    /\ aqSelected = <<>>

\* ====================================================================
\* the users service (exam)
\* ====================================================================

\* Names in requests; "" is an absent query parameter or an absent field.
Names == {"", "Thor", "Ole"}

NoRequest == [method |-> "none"]

\* users = append(users, User{"Thor"}) in main
UsersInit ==
    /\ users = <<"Thor">>
    /\ uServed = 0
    /\ uBefore = <<"Thor">>
    /\ uRequest = NoRequest
    /\ uResponse = NoResponse
    /\ uPosted = {}

\* for _, user := range users { if user.Name == userIDQueryParam { userExists = true } }
UserExists(us, name) == \E k \in 1..Len(us) : us[k] = name

\* if err != nil { http.Error(w, err.Error(), http.StatusBadRequest) }
\* users = append(users, user)
AppendUser(us, user, decoded) == Append(us, user)

\* handler, case "GET" with a name: get(w, r)
UsersGet ==
    /\ uServed < MaxRequests
    /\ \E name \in Names \ {""} :
          /\ uRequest' = [method |-> "GET", name |-> name]
          /\ uResponse' = [code |-> StatusOK, body |-> UserExists(users, name)]
    /\ uBefore' = users
    /\ uServed' = uServed + 1
    /\ UNCHANGED notUsersVars
    /\ UNCHANGED <<users, uPosted>>

\* handler, case "GET" with r.FormValue("name") == "": getUsers(w, r)
UsersGetAll ==
    /\ uServed < MaxRequests
    /\ uRequest' = [method |-> "GET", name |-> ""]
    /\ uResponse' = [code |-> StatusOK, body |-> users]
    /\ uBefore' = users
    /\ uServed' = uServed + 1
    /\ UNCHANGED notUsersVars
    /\ UNCHANGED <<users, uPosted>>

\* handler, case "POST": post(w, r). decoder.Decode(&user) either succeeds
\* with the body's name ("" when the body has none), or fails and leaves in
\* user what it had stored before the error: the zero User, or the name of a
\* field decoded before an ill-typed one. The error answer is not followed by
\* a return.
UsersPost ==
    /\ uServed < MaxRequests
    /\ \E decoded \in BOOLEAN, user \in Names :
          /\ uRequest' = [method |-> "POST", decoded |-> decoded, user |-> user]
          /\ users' = AppendUser(users, user, decoded)
          /\ uPosted' = IF users' # users THEN uPosted \cup {user} ELSE uPosted
          /\ uResponse' = [code |-> IF decoded THEN StatusOK ELSE StatusBadRequest,
                           body |-> users']
    /\ uBefore' = users
    /\ uServed' = uServed + 1
    /\ UNCHANGED notUsersVars

\* handler, default: fmt.Fprintf(w, "Hello %q", ...)
UsersOtherMethod ==
    /\ uServed < MaxRequests
    /\ uRequest' = [method |-> "PUT"]
    /\ uResponse' = [code |-> StatusOK, body |-> "Hello"]
    /\ uBefore' = users
    /\ uServed' = uServed + 1
    /\ UNCHANGED notUsersVars
    /\ UNCHANGED <<users, uPosted>>

UsersNext == UsersGet \/ UsersGetAll \/ UsersPost \/ UsersOtherMethod

\* The variables of the users service while another specification runs.
UsersIdle ==
    /\ users = <<>> /\ uServed = 0 /\ uBefore = <<>> /\ uRequest = NoRequest
    /\ uResponse = NoResponse /\ uPosted = {}

\* ====================================================================
\* the worker pool example (exam)
\* ====================================================================

\* for w := 1; w <= 3; w++ { go worker(w, jobs, results) }
NumWorkers == 3

\* for j := 1; j <= 3; j++ { jobs <- j }
NumJobs == 3

\* for r := 1; r <= 3; r++ { <-results }
NumResults == 3

\* jobs := make(chan int, 100); results := make(chan int, 100)
ExamChanCap == 100

ExamResultSame(j) == j

\* results <- j * 2
ExamResult(j) == j * 2

ExamInit ==
    /\ ePc = "start"
    /\ eStarted = 0
    /\ eSent = 0
    /\ eJobs = <<>>
    /\ eJobsClosed = FALSE
    /\ eResults = <<>>
    /\ eCollected = 0
    /\ eWorkers = [w \in 1..NumWorkers |-> [pc |-> "unstarted", j |-> 0]]
    /\ eReceived = [j \in 1..NumJobs |-> <<>>]
    /\ eProduced = [j \in 1..NumJobs |-> <<>>]

\* go worker(w, jobs, results), one iteration of the starting loop
ExamStartWorker ==
    /\ ePc = "start"
    /\ eStarted < NumWorkers
    /\ eStarted' = eStarted + 1
    /\ eWorkers' = [eWorkers EXCEPT ![eStarted + 1].pc = "recv"]
    /\ ePc' = IF eStarted + 1 = NumWorkers THEN "send" ELSE "start"
    /\ UNCHANGED notExamVars
    /\ UNCHANGED <<eSent, eJobs, eJobsClosed, eResults, eCollected, eReceived,
                   eProduced>>

\* jobs <- j, one iteration of the sending loop
ExamSendJob ==
    /\ ePc = "send"
    /\ eSent < NumJobs
    /\ Len(eJobs) < ExamChanCap
    /\ eJobs' = Append(eJobs, eSent + 1)
    /\ eSent' = eSent + 1
    /\ UNCHANGED notExamVars
    /\ UNCHANGED <<ePc, eStarted, eJobsClosed, eResults, eCollected, eWorkers,
                   eReceived, eProduced>>

\* close(jobs)
ExamCloseJobs ==
    /\ ePc = "send"
    /\ eSent = NumJobs
    /\ eJobsClosed' = TRUE
    /\ ePc' = "collect"
    /\ UNCHANGED notExamVars
    /\ UNCHANGED <<eStarted, eSent, eJobs, eResults, eCollected, eWorkers, eReceived,
                   eProduced>>

\* <-results, one iteration of the collecting loop
ExamCollect ==
    /\ ePc = "collect"
    /\ eCollected < NumResults
    /\ eResults # <<>>
    /\ eResults' = Tail(eResults)
    /\ eCollected' = eCollected + 1
    /\ UNCHANGED notExamVars
    /\ UNCHANGED <<ePc, eStarted, eSent, eJobs, eJobsClosed, eWorkers, eReceived,
                   eProduced>>

\* The collecting loop is over and pool returns.
ExamReturn ==
    /\ ePc = "collect"
    /\ eCollected = NumResults
    /\ ePc' = "returned"
    /\ UNCHANGED notExamVars
    /\ UNCHANGED <<eStarted, eSent, eJobs, eJobsClosed, eResults, eCollected,
                   eWorkers, eReceived, eProduced>>

\* for j := range jobs: a worker receives the next job
ExamWorkerReceive ==
    \E w \in 1..NumWorkers :
        /\ eWorkers[w].pc = "recv"
        /\ eJobs # <<>>
        /\ eWorkers' = [eWorkers EXCEPT ![w] = [pc |-> "work", j |-> Head(eJobs)]]
        /\ eJobs' = Tail(eJobs)
        /\ eReceived' = [eReceived EXCEPT ![Head(eJobs)] = Append(@, w)]
        /\ UNCHANGED notExamVars
        /\ UNCHANGED <<ePc, eStarted, eSent, eJobsClosed, eResults, eCollected,
                       eProduced>>

\* time.Sleep(time.Second); results <- j * 2, and back to the range
ExamWorkerSend ==
    \E w \in 1..NumWorkers :
        /\ eWorkers[w].pc = "work"
        /\ Len(eResults) < ExamChanCap
        /\ eResults' = Append(eResults, ExamResult(eWorkers[w].j))
        /\ eProduced' = [eProduced EXCEPT ![eWorkers[w].j] =
                            Append(@, ExamResult(eWorkers[w].j))]
        /\ eWorkers' = [eWorkers EXCEPT ![w].pc = "recv"]
        /\ UNCHANGED notExamVars
        /\ UNCHANGED <<ePc, eStarted, eSent, eJobs, eJobsClosed, eCollected,
                       eReceived>>

\* for j := range jobs ends: jobs is closed and empty, the worker returns
ExamWorkerExit ==
    \E w \in 1..NumWorkers :
        /\ eWorkers[w].pc = "recv"
        /\ eJobs = <<>>
        /\ eJobsClosed
        /\ eWorkers' = [eWorkers EXCEPT ![w].pc = "done"]
        /\ UNCHANGED notExamVars
        /\ UNCHANGED <<ePc, eStarted, eSent, eJobs, eJobsClosed, eResults,
                       eCollected, eReceived, eProduced>>

ExamNext ==
    \/ ExamStartWorker
    \/ ExamSendJob
    \/ ExamCloseJobs
    \/ ExamCollect
    \/ ExamReturn
    \/ ExamWorkerReceive
    \/ ExamWorkerSend
    \/ ExamWorkerExit

\* The variables of the example while another specification runs.
ExamIdle ==
    /\ ePc = "idle" /\ eStarted = 0 /\ eSent = 0 /\ eJobs = <<>>
    /\ eJobsClosed = FALSE /\ eResults = <<>> /\ eCollected = 0
    /\ eWorkers = <<>> /\ eReceived = <<>> /\ eProduced = <<>>

\* ====================================================================
\* Specifications
\* ====================================================================

\* The variables of ServeHTTP and of the side examples, all idle.
OtherIdle == ServeIdle /\ AreaQueryIdle /\ UsersIdle /\ ExamIdle

SpecRetryInit ==
    RetryInit /\ RegionIdle /\ PoolIdle /\ GeoIdle /\ HandlerIdle /\ QueryIdle /\ ListIdle
        /\ OtherIdle

SpecRegionInit ==
    RegionInit /\ RetryIdle /\ PoolIdle /\ GeoIdle /\ HandlerIdle /\ QueryIdle /\ ListIdle
        /\ OtherIdle

SpecPoolInit ==
    PoolInit /\ RetryIdle /\ RegionIdle /\ GeoIdle /\ HandlerIdle /\ QueryIdle /\ ListIdle
        /\ OtherIdle

SpecGeoInit ==
    GeoInit /\ RetryIdle /\ RegionIdle /\ PoolIdle /\ HandlerIdle /\ QueryIdle /\ ListIdle
        /\ OtherIdle

SpecHandlerInit ==
    HandlerInit /\ RetryIdle /\ RegionIdle /\ PoolIdle /\ GeoIdle /\ QueryIdle /\ ListIdle
        /\ OtherIdle

SpecQueryInit ==
    QueryInit /\ RetryIdle /\ RegionIdle /\ PoolIdle /\ GeoIdle /\ HandlerIdle /\ ListIdle
        /\ OtherIdle

SpecListingInit ==
    ListInit /\ RetryIdle /\ RegionIdle /\ PoolIdle /\ GeoIdle /\ HandlerIdle
        /\ QueryIdle /\ OtherIdle

SpecServeInit ==
    ServeInit /\ RetryIdle /\ RegionIdle /\ PoolIdle /\ GeoIdle /\ HandlerIdle
        /\ QueryIdle /\ ListIdle /\ AreaQueryIdle /\ UsersIdle /\ ExamIdle

SpecAreaQueryInit ==
    AreaQueryInit /\ RetryIdle /\ RegionIdle /\ PoolIdle /\ GeoIdle /\ HandlerIdle
        /\ QueryIdle /\ ListIdle /\ ServeIdle /\ UsersIdle /\ ExamIdle

SpecUsersInit ==
    UsersInit /\ RetryIdle /\ RegionIdle /\ PoolIdle /\ GeoIdle /\ HandlerIdle
        /\ QueryIdle /\ ListIdle /\ ServeIdle /\ AreaQueryIdle /\ ExamIdle

SpecExamInit ==
    ExamInit /\ RetryIdle /\ RegionIdle /\ PoolIdle /\ GeoIdle /\ HandlerIdle
        /\ QueryIdle /\ ListIdle /\ ServeIdle /\ AreaQueryIdle /\ UsersIdle

SpecRetry == SpecRetryInit /\ [][RetryNext]_vars

SpecRegion == SpecRegionInit /\ [][RegionNext]_vars

\* The Go scheduler runs every goroutine that can take a step, and every
\* query that was issued completes.
SpecRegionFair == SpecRegion /\ WF_vars(RegionNext)

SpecPool == SpecPoolInit /\ [][PoolNext]_vars

SpecGeo == SpecGeoInit /\ [][GeoNext]_vars

SpecHandler == SpecHandlerInit /\ [][HandlerNext]_vars

SpecQuery == SpecQueryInit /\ [][QueryNext]_vars

SpecListing == SpecListingInit /\ [][ListNext]_vars

SpecServe == SpecServeInit /\ [][ServeNext]_vars

SpecAreaQuery == SpecAreaQueryInit /\ [][AreaQueryNext]_vars

SpecUsers == SpecUsersInit /\ [][UsersNext]_vars

SpecExam == SpecExamInit /\ [][ExamNext]_vars

\* Every goroutine that can take a step eventually takes one.
SpecExamFair == SpecExam /\ WF_vars(ExamNext)

\* The Go scheduler runs every goroutine that can take a step.
SpecPoolFair == SpecPool /\ WF_vars(PoolNext)

\* ====================================================================
\* Properties
\* ====================================================================

RECURSIVE Pow(_, _)
Pow(b, n) == IF n = 0 THEN 1 ELSE b * Pow(b, n - 1)

RECURSIVE SumCounts(_)
SumCounts(n) == IF n = 0 THEN 0 ELSE tasks[n].count + SumCounts(n - 1)

FailedTasks == {t \in 1..Len(tasks) : tasks[t].failed}

\* The rectangles of the count queries issued so far that equal `args`.
QueriesFor(args) == {q \in 1..Len(queried) : queried[q] = args}

\* The delay the n-th sleep starts from: d_(n-1).
DelayBefore(n) == IF n = 1 THEN baseDelay ELSE slept[n - 1]

\* C1: when the client was created and no per-cell query failed, the dispatcher,
\* once it has returned, has returned (13 * the sum of the counts of all
\* len(cover) tasks, nil), every task having delivered its count, whatever
\* the order in which the counts arrived.
C1_SumTimesGranuleSize ==
    (regionPc = "returned" /\ client = "ok" /\ FailedTasks = {}) =>
        /\ Len(tasks) = Len(cover)
        /\ \A t \in 1..Len(tasks) : tasks[t].pc = "done"
        /\ regionRet = [count |-> bucketGranuleSize * SumCounts(Len(tasks)),
                        err |-> Nil]

\* C1 witness: two cells with counts 1 and 2, the second cell's count received
\* first, and 39 returned.
C1_Witness ==
    /\ regionPc = "returned" /\ Len(cover) = 2 /\ Len(tasks) = 2
    /\ FailedTasks = {}
    /\ tasks[1].count = 1 /\ tasks[2].count = 2
    /\ received = <<2, 1>>
    /\ regionRet = [count |-> 39, err |-> Nil]

\* C2: once the dispatcher has returned (the client having been created), a nil
\* error means that no task failed and every task delivered its count (never a
\* partial sum); and when exactly one task has failed, the dispatcher has
\* returned count 0 with that task's error.
C2_OneFailureNoPartialSum ==
    (regionPc = "returned" /\ client = "ok") =>
        /\ regionRet.err = Nil =>
              /\ FailedTasks = {}
              /\ \A t \in 1..Len(cover) : tasks[t].pc = "done"
        /\ \A t \in 1..Len(tasks) :
              FailedTasks = {t} => regionRet = [count |-> 0, err |-> tasks[t].errv]

\* C2 witness: two cells, the second delivered a positive count that the
\* dispatcher had already added, the first failed, and (0, its error) came back.
C2_Witness ==
    /\ regionPc = "returned" /\ Len(cover) = 2 /\ Len(tasks) = 2
    /\ FailedTasks = {1} /\ tasks[2].pc = "done"
    /\ imageCount > 0 /\ received = <<tasks[2].count>>
    /\ regionRet = [count |-> 0, err |-> tasks[1].errv]

\* C5: for an operation that fails exactly plan = k times and then succeeds,
\* 0 <= k < attempts, retry never invokes it more than k + 1 times, has
\* returned as soon as the (k+1)-th invocation was made, and returns nil.
C5_SuccessAfterKFailures ==
    (plan # Always /\ plan < attempts) =>
        /\ calls <= plan + 1
        /\ calls = plan + 1 => retryPc = "returned"
        /\ retryPc = "returned" => (calls = plan + 1 /\ retryRet = Nil)

\* C5 witness: two failures, then success on the third of three attempts.
C5_Witness ==
    /\ retryPc = "returned" /\ plan = 2 /\ attempts = 3
    /\ calls = 3 /\ retryRet = Nil /\ Len(slept) = 2

C7_Backoff ==
    /\ Len(slept) = (IF retryPc = "callback" THEN calls ELSE calls - 1)
    /\ sleep = DelayBefore(Len(slept) + 1)
    /\ \A n \in 1..Len(slept) :
          LET d == slept[n]
              j == slept[n] - DelayBefore(n)
          IN /\ 0 <= j
             /\ 2 * j < DelayBefore(n)
             /\ d >= DelayBefore(n)
             /\ d >= baseDelay
             /\ Pow(2, n) * d < Pow(3, n) * baseDelay

\* C7 witness: two sleeps, each longer than the one before, between three
\* invocations.
C7_Witness ==
    /\ retryPc = "returned" /\ calls = 3 /\ Len(slept) = 2
    /\ slept[1] > baseDelay /\ slept[2] > slept[1]

\* C14: retry never writes the session: its MaxRetries and Duration stay what
\* they were, the arguments of every call are the session's fields, the delay
\* only grows inside the call (sleep >= the session's Duration), and every call
\* made with the session, the first or a later one, starts at i = 0 with the
\* session's base delay and its whole attempt budget.
C14_SessionInv ==
    /\ attempts = session.MaxRetries
    /\ baseDelay = session.Duration
    /\ sleep >= session.Duration
    /\ (retryPc = "callback" /\ calls = 0) => (sleep = session.Duration /\ i = 0)
    /\ (retryPc = "returned" /\ err # 0) =>
          calls = (IF session.MaxRetries >= 1 THEN session.MaxRetries ELSE 1)

C14_SessionNotMutated == [](C14_SessionInv) /\ [][session' = session]_vars

\* C14 witness: a second call with the same session is about to invoke op for
\* the first time, at the base delay, after a first call whose delay had grown.
C14_Witness ==
    /\ round = 2 /\ retryPc = "callback" /\ calls = 0
    /\ prevSleep > session.Duration
    /\ sleep = session.Duration

\* C15: whether or not the request context has ended, retry returns only after
\* a successful invocation (nil) or with attempts exhausted (the wrapped error);
\* no invocation is skipped and no sleep is shorter than the delay it started
\* from.
C15_NoEarlyAbort ==
    /\ retryPc = "returned" =>
          \/ err = 0 /\ retryRet = Nil
          \/ err # 0 /\ i >= attempts - 1 /\ retryRet = Errorf(attempts, err)
    /\ calls = (IF retryPc = "callback" THEN i ELSE i + 1)
    /\ Len(slept) = i
    /\ \A n \in 1..Len(slept) : slept[n] >= DelayBefore(n)

\* C15 witness: the context ended during the first sleep of the call; retry
\* nevertheless made its two remaining invocations and returned exhausted.
C15_Witness ==
    /\ ctxDoneAt # NotDone /\ ctxDoneAt.pc = "sleep" /\ ctxDoneAt.round = round
    /\ ctxDoneAt.calls = 1
    /\ retryPc = "returned" /\ err # 0 /\ calls = 3 /\ Len(slept) = 2

\* C10: the dispatcher starts one task per cell of the cover, in cover order,
\* task n with the bounds (Lo.Lat, Lo.Lng, Hi.Lat, Hi.Lng) of cover[n]; every
\* count query issued carries the bounds of its task's cell, and a cell has been
\* queried once when its task has passed query.Read and never otherwise.
C10_OneTaskPerCell ==
    /\ Len(tasks) <= Len(cover)
    /\ (regionPc \in {"await", "returned"} /\ client = "ok") => Len(tasks) = Len(cover)
    /\ \A t \in 1..Len(tasks) :
          LET rb == RectBound(cover[t]) IN
          tasks[t].args = [lat1 |-> AngleString(rb.lo.lat), lng1 |-> AngleString(rb.lo.lng),
                           lat2 |-> AngleString(rb.hi.lat), lng2 |-> AngleString(rb.hi.lng)]
    /\ \A c \in 1..Len(cover) :
          LET rb == RectBound(cover[c])
              args == [lat1 |-> AngleString(rb.lo.lat), lng1 |-> AngleString(rb.lo.lng),
                       lat2 |-> AngleString(rb.hi.lat), lng2 |-> AngleString(rb.hi.lng)]
          IN Cardinality(QueriesFor(args)) =
                (IF c <= Len(tasks) /\ tasks[c].pc # "read" THEN 1 ELSE 0)
    /\ Len(queried) <= Len(tasks)

\* C10 witness: a cover of two cells, both tasks started and both cells queried,
\* the second cell first.
C10_Witness ==
    /\ Len(cover) = 2 /\ Len(tasks) = 2 /\ Len(queried) = 2
    /\ queried[1] = tasks[2].args /\ queried[2] = tasks[1].args
    /\ tasks[1].args # tasks[2].args

\* C11 as stated: a per-cell task completes at most one channel send in total,
\* and a task whose error the dispatcher has taken goes on to nothing: neither
\* to rows.Next or row[0], nor to another send, and it does not bring the
\* process down.
C11_OneMessagePerTask ==
    \A t \in 1..Len(tasks) :
        /\ tasks[t].sent <= 1
        /\ (tasks[t].failed /\ tasks[t].sent >= 1) =>
              /\ tasks[t].pc \notin {"next", "useRow", "sendCount", "sendNextErr"}
              /\ ~panicked

\* C12 as stated: once the dispatcher has returned an error, no task stays
\* blocked on a channel send: a task at `errors <- err` after the return has
\* no receiver left on the unbuffered channel and never leaves that statement.
C12_NoSiblingBlocked ==
    (regionPc = "returned" /\ regionRet.err # Nil) =>
        \A t \in 1..Len(tasks) : tasks[t].pc \notin {"sendReadErr", "sendNextErr"}

\* C13 as stated: an error the dispatcher returns for a cell is the wrapped
\* error of the Retry Executor, carrying the attempt ceiling and the last
\* cause, the cell having been queried that many times before.
C13_RetriedBeforeError ==
    (regionPc = "returned" /\ client = "ok" /\ regionRet.err # Nil) =>
        /\ regionRet.err.kind = "retryError"
        /\ regionRet.err.attempts = MaxRetries
        /\ \E t \in 1..Len(tasks) :
              Cardinality(QueriesFor(tasks[t].args)) = MaxRetries

\* ---- imagesByRegion, continued ----

\* The tasks whose error the dispatcher has taken from errChan.
ErrorTaken == {t \in 1..Len(tasks) : tasks[t].failed /\ tasks[t].sent >= 1}

\* C23: a value taken from the error channel and the dispatcher's return are
\* one step: no state has an error taken and the dispatcher still collecting;
\* the dispatcher that returned an error (its client created) returned count 0
\* with the error of the one task whose error was taken, having received fewer
\* than len(cover) counts, whatever the other tasks are doing.
C23_ReturnsOnFirstError ==
    /\ ErrorTaken # {} => regionPc = "returned"
    /\ Cardinality(ErrorTaken) <= 1
    /\ (regionPc = "returned" /\ client = "ok" /\ regionRet.err # Nil) =>
          /\ regionRet.count = 0
          /\ \E t \in ErrorTaken : regionRet.err = tasks[t].errv
          /\ awaited < Len(cover)
          /\ Len(received) = awaited

\* C23 witness: the first task's query failed first and it still waits to send
\* its error; the dispatcher has returned the second task's error.
C23_Witness ==
    /\ regionPc = "returned" /\ Len(tasks) = 2 /\ Len(queried) = 2
    /\ queried[1] = tasks[1].args
    /\ tasks[1].pc = "sendReadErr" /\ tasks[1].sent = 0
    /\ regionRet = [count |-> 0, err |-> tasks[2].errv]
    /\ tasks[2].errv.kind = "readError"

\* The aggregation loop never receives more than len(cover) messages, counts
\* and the one error together, and a nil return follows exactly len(cover)
\* received counts.
C24_AtMostNReceives ==
    /\ awaited + Cardinality(ErrorTaken) <= Len(cover)
    /\ Len(received) = awaited
    /\ (regionPc = "returned" /\ client = "ok" /\ regionRet.err = Nil) =>
          awaited = Len(cover)

\* C24: under fair scheduling, every query completing, the dispatcher returns
\* for every cover and every mix of succeeding and failing tasks, after at
\* most len(cover) receives (exactly len(cover) when it returns nil).
C24_Terminates == [](C24_AtMostNReceives) /\ <>(regionPc = "returned")

\* C24 witness: two cells, one count received, then the other task's error:
\* the dispatcher has returned after two receives.
C24_Witness ==
    /\ regionPc = "returned" /\ Len(cover) = 2 /\ Len(tasks) = 2
    /\ awaited = 1 /\ Cardinality(ErrorTaken) = 1
    /\ regionRet.err # Nil

\* C25: results is closed only after len(cover) counts were received and a nil
\* error is being returned, every task having completed its one send by then:
\* no task is at, or can come to, a send once the channel is closed, and no
\* goroutine panics with the channel closed; on the error path the channel
\* stays open.
C25_NoSendOnClosed ==
    /\ resultsClosed =>
          /\ regionPc = "returned" /\ regionRet.err = Nil
          /\ awaited = Len(cover) /\ Len(received) = Len(cover)
          /\ \A t \in 1..Len(tasks) : tasks[t].pc = "done"
          /\ ~panicked
    /\ (regionPc = "returned" /\ regionRet.err # Nil) => ~resultsClosed

\* C25 witness: two cells, both counts received, the channel closed.
C25_Witness ==
    /\ resultsClosed /\ Len(cover) = 2 /\ Len(tasks) = 2
    /\ tasks[1].pc = "done" /\ tasks[2].pc = "done"
    /\ regionPc = "returned"

\* C26: results never holds more than its capacity len(cover), and a task that
\* has come to `channel <- count` always finds room: its send is enabled at
\* once, whether the dispatcher is still collecting or has returned an error.
C26_CountSendNeverBlocks ==
    /\ Len(results) <= Len(cover)
    /\ Cardinality({t \in 1..Len(tasks) : tasks[t].pc = "done"})
          = Len(results) + awaited
    /\ \A t \in 1..Len(tasks) :
          tasks[t].pc = "sendCount" =>
              /\ ~resultsClosed
              /\ Len(results) < Len(cover)
              /\ panicked \/ ENABLED TaskSendCount(t)

\* C26 witness: the dispatcher has returned the first task's error; the second
\* task then sent its count, which stays in the buffer.
C26_Witness ==
    /\ Len(tasks) = 2 /\ regionPc = "returned" /\ regionRet.err # Nil
    /\ 1 \in ErrorTaken
    /\ tasks[2].pc = "done" /\ ~tasks[2].failed
    /\ results = <<tasks[2].count>>

\* C29: with an empty cover and the client created, no task is ever started,
\* nothing is received, the aggregation loop is over as soon as it is reached,
\* and the dispatcher returns (0, nil); when creating the
\* client fails, the dispatcher has returned (0, that error) with no task
\* started, whatever the cover.
C29_EmptyCover ==
    /\ (cover = <<>> /\ client = "ok") =>
          /\ tasks = <<>> /\ awaited = 0 /\ received = <<>> /\ queried = <<>>
          /\ regionPc = "await" => ENABLED RegionClose
          /\ regionPc = "returned" => regionRet = [count |-> 0, err |-> Nil]
    /\ client = "err" =>
          /\ regionPc = "returned"
          /\ regionRet = [count |-> 0, err |-> [kind |-> "clientError"]]
          /\ tasks = <<>> /\ queried = <<>>

\* C29 witness: the empty cover, returned.
C29_Witness == cover = <<>> /\ client = "ok" /\ regionPc = "returned"

\* ---- worker / parse ----

\* Invocations of the operation so far: the direct call and those of retry.
Invocations == (IF lDirect = "pending" THEN 0 ELSE 1) + calls

\* C28: the operation is invoked once directly; retry is entered only after
\* that call failed, with MaxRetries = 5 attempts and a base delay of 10 (the
\* first sleep lasts at least 10 and less than 15), and makes at most 5 further
\* invocations: at most 6 in all, at least one once the operation is over, and
\* exactly one when the direct call succeeded.
C28_BoundedInvocations ==
    /\ Invocations <= 6
    /\ lDirect \in {"pending", "ok"} => (retryPc = "idle" /\ calls = 0)
    /\ lDirect = "ok" => Invocations = 1
    /\ lDirect = "failed" =>
          /\ attempts = 5 /\ baseDelay = 10
          /\ calls <= 5
          /\ slept # <<>> => (slept[1] >= 10 /\ slept[1] < 15)
          /\ retryPc = "returned" => Invocations >= 2
          /\ (retryPc = "returned" /\ err # 0) => Invocations = 6

\* C28 witness: parse's download failed directly and five times in retry.
C28_Witness ==
    /\ lCaller = "parse" /\ lDirect = "failed" /\ retryPc = "returned"
    /\ err # 0 /\ calls = 5 /\ Len(slept) = 4

\* ---- geo ----

\* The request's coordinate sequence is an input error: odd length, or fewer
\* than three points.
GeoInputError == Len(geoInput) % 2 = 1 \/ Len(geoInput) < 6

\* C16: for an even-length sequence of length 2n regionCover never fails in the
\* pairing loop; at every moment point k is (lat = coords[2k-2], lng =
\* coords[2k-1]) (0-based) and the unconsumed part is the rest of the input; the
\* one loop is built from exactly those n points in input order.
C16_PairsPositionally ==
    Len(geoInput) % 2 = 0 =>
        /\ geoPc # "panicked"
        /\ \A k \in 1..Len(points) :
              points[k] = <<"point", geoInput[2 * k - 1], geoInput[2 * k]>>
        /\ coords = SubSeq(geoInput, 2 * Len(points) + 1, Len(geoInput))
        /\ geoPc \in {"count", "encode", "done"} =>
              /\ Len(points) * 2 = Len(geoInput)
              /\ geoLoop = points

\* C16 witness: six coordinates, latitudes and longitudes differing, paired
\* into three points of one loop.
C16_Witness ==
    /\ Len(geoInput) = 6 /\ geoPc = "count" /\ Len(geoLoop) = 3
    /\ geoInput[1] # geoInput[2] /\ geoInput[3] # geoInput[4]
    /\ geoInput[1] # geoInput[3]

\* C17 as stated: a coordinate sequence of odd length or of fewer than three
\* points (the empty sequence among them) ends the request with an error answer, with no panic and no per-cell
\* count task.
C17_InputErrorSurfaced ==
    (geoPc \in {"pair", "count", "encode", "done", "panicked"} /\ GeoInputError) =>
        /\ geoPc # "panicked"
        /\ geoSpawned = 0
        /\ geoPc = "done" => geoResponse.code \in {StatusBadRequest,
                                                   StatusInternalServerError}

\* The stages of geo in the order of its code.
Pipeline == <<<<"parse">>, <<"regionCover", 15, 100>>, <<"imagesByRegion">>, <<"encode">>>>

\* C31: the calls geo has made are always an initial part of parse,
\* regionCover(coords, 15, 100), imagesByRegion, encode, in this order; a
\* missing country (or an unparsable form) is answered 400 with no stage run;
\* a failure of parse is answered 500 after parse alone, with no count task
\* started, and one of imagesByRegion 500 with nothing encoded; once an error
\* answer is written geo is over; an answer of 200 carries the count and comes
\* only after all four stages, each successful.
C31_PipelineOrder ==
    /\ Len(geoStages) <= Len(Pipeline)
    /\ \A k \in 1..Len(geoStages) : geoStages[k] = Pipeline[k]
    /\ geoResponse # NoResponse => geoPc = "done"
    /\ geoPc = "done" => geoResponse # NoResponse
    /\ (geoCountry = "" /\ geoPc # "parseForm") =>
          geoPc = "done" /\ geoResponse.code = StatusBadRequest
    /\ geoResponse.code = StatusBadRequest => geoStages = <<>>
    /\ geoResponse = HttpError("Could not fetch PSLG data", StatusInternalServerError)
          => geoStages = SubSeq(Pipeline, 1, 1) /\ geoSpawned = 0
    /\ geoResponse = HttpError("Could not get granules", StatusInternalServerError)
          => geoStages = SubSeq(Pipeline, 1, 3)
    /\ geoResponse.code = StatusOK =>
          /\ geoStages = Pipeline
          /\ geoResponse.body = geoCount
          /\ geoSpawned = Len(geoCover)
    /\ geoResponse.code \in {0, StatusBadRequest, StatusInternalServerError, StatusOK}

\* C31 witness: a request that went through all four stages and was answered
\* with a count of 13 images or more.
C31_Witness ==
    /\ geoPc = "done" /\ geoStages = Pipeline
    /\ geoResponse.code = StatusOK /\ geoResponse.body >= bucketGranuleSize

\* C31 witness: imagesByRegion failed after its tasks were started and the
\* request was answered 500 without encoding.
C31_WitnessCountFailed ==
    /\ geoPc = "done" /\ Len(geoStages) = 3 /\ geoSpawned > 0
    /\ geoResponse.code = StatusInternalServerError

\* ---- handlers ----

\* C18 as stated: when images has finished with a latitude or a longitude that
\* does not match its pattern, it has answered 400 "Please provide a valid
\* latitude and longitude" and no granule query was issued.
C18_ImagesRejectsInvalid ==
    (handler = "images" /\ hPc \in {"query", "encode", "done"}
        /\ "parseForm" \notin hFailed
        /\ (~MatchLatitude(hLat) \/ ~MatchLongitude(hLng))) =>
        /\ hPc = "done"
        /\ hResponse = [code |-> StatusBadRequest,
                        body |-> "Please provide a valid latitude and longitude"]
        /\ hQueries = <<>>

\* The pairs the geocoding service's answers convert to.
ConvertedPairs == {Converted(loc) : loc \in Locations}

\* C33: in images, once the conversion is over without a panic: if it
\* succeeded the pair in use is the converted one, whatever lat and lng the
\* form holds; if it failed the pair is the form's lat and lng, and for an
\* empty address no fetch from the geocoding service was made; neither pair
\* matching its pattern is answered 400 with no query, and the one granule
\* query issued carries the pair in use.
C33_CoordinateSource ==
    (handler = "images" /\ hPc \in {"validate", "query", "encode", "done"}
        /\ "parseForm" \notin hFailed) =>
        /\ form.address = <<>> => (hGeocoded = 0 /\ "geocode" \notin hFailed)
        /\ form.address # <<>> => hGeocoded = 1
        /\ (form.address # <<>> /\ "geocode" \notin hFailed) =>
              [lat |-> hLat, lng |-> hLng] \in ConvertedPairs
        /\ (form.address = <<>> \/ "geocode" \in hFailed) =>
              (hLat = form.lat /\ hLng = form.lng)
        /\ Len(hQueries) <= 1
        /\ \A k \in 1..Len(hQueries) : hQueries[k] = <<"getLinks", hLat, hLng>>
        /\ hPc \in {"query", "encode"} => ~ImagesInvalid(hLat, hLng)
        /\ (hPc \in {"encode"} \/ (hPc = "done" /\ hResponse.code = StatusOK)) =>
              Len(hQueries) = 1
        /\ (hPc = "done" /\ ImagesInvalid(hLat, hLng)) =>
              (hResponse.code = StatusBadRequest /\ hQueries = <<>>)

\* C33 witness: the address converted while the form also held a valid lat
\* and lng; the query carried the converted pair.
C33_Witness ==
    /\ handler = "images" /\ hPc = "done" /\ hResponse.code = StatusOK
    /\ form.address # <<>> /\ MatchLatitude(form.lat) /\ MatchLongitude(form.lng)
    /\ Len(hQueries) = 1 /\ hQueries[1][2] # form.lat
    /\ [lat |-> hQueries[1][2], lng |-> hQueries[1][3]] \in ConvertedPairs

\* C33 witness: an empty address, the form's pair queried with no fetch.
C33_WitnessFallback ==
    /\ handler = "images" /\ hPc = "done" /\ hResponse.code = StatusOK
    /\ form.address = <<>> /\ hGeocoded = 0
    /\ Len(hQueries) = 1 /\ hQueries[1] = <<"getLinks", form.lat, form.lng>>

\* C19: area, its form parsed: with any of lat1, lat2, lng1, lng2 not matching
\* its pattern the handler answers 400 and neither the base-URL query nor pool
\* is ever started; with all four matching and no failure of the base-URL
\* query, of the storage client and the listings, or of the encoding, the
\* finished handler has answered 200 after pool returned, one base-URL query
\* with the four form values having been issued.
C19_AreaValidation ==
    (handler = "area" /\ "parseForm" \notin hFailed) =>
        /\ (~MatchLatitude(form.lat1) \/ ~MatchLatitude(form.lat2)
               \/ ~MatchLongitude(form.lng1) \/ ~MatchLongitude(form.lng2)) =>
              /\ hQueries = <<>> /\ hPoolCalls = 0
              /\ hPc \in {"parseForm", "validate", "done"}
              /\ hPc = "done" => hResponse.code = StatusBadRequest
        /\ (MatchLatitude(form.lat1) /\ MatchLatitude(form.lat2)
               /\ MatchLongitude(form.lng1) /\ MatchLongitude(form.lng2)
               /\ hPc = "done" /\ hFailed = {}) =>
              /\ hResponse = [code |-> StatusOK, body |-> hPoolResult.Links]
              /\ hPoolCalls = 1
              /\ hQueries = << <<"getImageBaseURL", form.lat1, form.lng1,
                                 form.lat2, form.lng2>> >>

\* C19 witness: a request with four valid values answered 200.
C19_Witness ==
    /\ handler = "area" /\ hPc = "done" /\ hFailed = {}
    /\ MatchLatitude(form.lat1) /\ MatchLongitude(form.lng1)
    /\ hResponse.code = StatusOK /\ hPoolCalls = 1

\* ---- ServeHTTP ----

\* C32: from the moment the wrapped handler runs, the context's deadline is 5
\* minutes after its creation, and the context is not done before that minute
\* unless cancel was called; cancel is called exactly once, when ServeHTTP
\* returns, and never while the handler is still running or before the error
\* response is written; when ServeHTTP has returned after a non-nil appError
\* the response carries exactly its Message and Code, and after nil it is the
\* one the handler wrote.
C32_ServeHTTP ==
    /\ sPc \in {"start", "handler", "error", "defer", "returned", "panicked", "idle"}
    /\ sPc \in {"handler", "error", "defer", "returned", "panicked"} =>
          /\ sDeadline # NoDeadline
          /\ sDeadline - Timeout \in 0..sClock
          /\ sDeadline - Timeout \in 0..1
          /\ sCtxDone = "deadline" => sClock >= sDeadline
          /\ (sClock >= sDeadline /\ sPc # "returned") => sCtxDone = "deadline"
    /\ sPc = "returned" <=> sCancelCalls = 1
    /\ sPc # "returned" => (sCancelCalls = 0 /\ sCtxDone # "cancel")
    /\ sPc = "returned" =>
          /\ sCtxDone # "no"
          /\ sBodyClosed
          /\ sErr # Nil => sResponse = [code |-> sErr.Code, body |-> sErr.Message]
          /\ sErr = Nil => sResponse = [code |-> StatusOK, body |-> "result"]

\* C32 witness: a handler that returned a 400 appError within the deadline;
\* the response carries it and the context was cancelled at the return.
C32_Witness ==
    /\ sPc = "returned" /\ sErr # Nil /\ sErr.Code = StatusBadRequest
    /\ sResponse.code = StatusBadRequest /\ sCtxDone = "cancel" /\ sCancelCalls = 1

\* C32 witness: the handler outlived the deadline.
C32_WitnessLate ==
    sPc = "returned" /\ sCtxDone = "deadline" /\ sErr = Nil

\* ---- index query ----

\* The strict overlap of the cell's rectangle with a record's box.
Overlaps(rb, rec) ==
    /\ rb.lo.lat < rec.north_lat /\ rec.south_lat < rb.hi.lat
    /\ rb.lo.lng < rec.east_lon /\ rec.west_lon < rb.hi.lng

\* C20: the four arguments passed for a cell denote, in this order, Lo.Lat,
\* Lo.Lng, Hi.Lat and Hi.Lng of its bounds; the query of getImageCount selects
\* a record iff latLo < north AND south < latHi AND lngLo < east AND
\* west < lngHi, and the query of getImageBaseURL, given the same arguments,
\* selects exactly the same records.
C20_QueryPredicate ==
    LET rb == RectBound(qCell) IN
    /\ qPc \in {"count", "baseURL", "done"} =>
          /\ ParseNumber(qArgs.lat1) = rb.lo.lat /\ ParseNumber(qArgs.lng1) = rb.lo.lng
          /\ ParseNumber(qArgs.lat2) = rb.hi.lat /\ ParseNumber(qArgs.lng2) = rb.hi.lng
    /\ qPc \in {"baseURL", "done"} => (qCounted <=> Overlaps(rb, qRecord))
    /\ qPc = "done" => (qListed <=> Overlaps(rb, qRecord))

\* C20 witness: a record whose southern edge lies on the rectangle's northern
\* bound and whose longitudes overlap it is selected by neither query.
C20_Witness ==
    /\ qPc = "done"
    /\ qRecord.south_lat = RectBound(qCell).hi.lat
    /\ qRecord.west_lon < RectBound(qCell).hi.lng
    /\ RectBound(qCell).lo.lng < qRecord.east_lon
    /\ ~qCounted /\ ~qListed

\* ---- area: the two corners ----

\* The form of request k: the corners as given, then exchanged.
FormOf(k) == IF k = 1 THEN aqCorners ELSE SwapCorners(aqCorners)

\* C34: area hands lat1, lng1, lat2, lng2 to getImageBaseURL exactly as the
\* form gives them, never ordered or exchanged; the query selects a record iff
\* lat1 < north AND south < lat2 AND lng1 < east AND west < lng2 in the numbers
\* as given, so that with lat1 > lat2 (lng1 > lng2) only a record reaching
\* beyond both ends of the latitude (longitude) interval is selected.
C34_CornersAsGiven ==
    /\ Len(aqArgs) = Len(aqSelected)
    /\ \A k \in 1..Len(aqArgs) :
          LET lat1 == ParseNumber(FormOf(k).lat1)
              lng1 == ParseNumber(FormOf(k).lng1)
              lat2 == ParseNumber(FormOf(k).lat2)
              lng2 == ParseNumber(FormOf(k).lng2)
          IN  /\ aqArgs[k] = FormOf(k)
              /\ aqSelected[k] <=>
                    /\ lat1 < aqRecord.north_lat /\ aqRecord.south_lat < lat2
                    /\ lng1 < aqRecord.east_lon /\ aqRecord.west_lon < lng2
              /\ (aqSelected[k] /\ lat1 > lat2) =>
                    (aqRecord.south_lat < lat2 /\ lat1 < aqRecord.north_lat)
              /\ (aqSelected[k] /\ lng1 > lng2) =>
                    (aqRecord.west_lon < lng2 /\ lng1 < aqRecord.east_lon)

\* C34 witness: a record lying between two corners is selected when the
\* lower corner is given first and not when the corners are exchanged.
C34_Witness ==
    /\ aqPc = "done"
    /\ ParseNumber(aqCorners.lat1) > ParseNumber(aqCorners.lat2)
    /\ ~aqSelected[1] /\ aqSelected[2]
    /\ aqRecord.south_lat >= ParseNumber(aqCorners.lat2)

\* C34 witness: with the higher latitude first, a record reaching beyond both
\* latitudes is selected.
C34_WitnessSpanning ==
    /\ aqPc = "done"
    /\ ParseNumber(aqCorners.lat1) > ParseNumber(aqCorners.lat2)
    /\ aqSelected[1]

\* ---- users service ----

\* C35 as stated: the list starts with Thor and every request leaves the
\* earlier list as an initial part of it; a GET with a name answers true iff
\* the name is Thor or one a POST appended, and leaves the list as it was; a
\* POST whose body could not be decoded is answered 400 and leaves the list as
\* it was.
C35_UsersList ==
    /\ Len(users) >= 1 /\ users[1] = "Thor"
    /\ Len(uBefore) <= Len(users)
    /\ uBefore = SubSeq(users, 1, Len(uBefore))
    /\ uRequest.method = "GET" => users = uBefore
    /\ (uRequest.method = "GET" /\ uRequest.name # "") =>
          (uResponse.body <=> (uRequest.name = "Thor" \/ uRequest.name \in uPosted))
    /\ (uRequest.method = "POST" /\ ~uRequest.decoded) =>
          (uResponse.code = StatusBadRequest /\ users = uBefore)

\* ---- worker pool example ----

\* Jobs 1..3 are in the channel, with a worker, or done, never at two places.
C36_Safe ==
    /\ eCollected <= NumResults
    /\ \A j \in 1..NumJobs :
          /\ Len(eReceived[j]) <= 1
          /\ Len(eProduced[j]) <= Len(eReceived[j])
          /\ \A k \in 1..Len(eProduced[j]) : eProduced[j][k] = 2 * j
          /\ Len(eReceived[j]) = 1 => eReceived[j][1] \in 1..NumWorkers
    /\ ePc = "returned" =>
          /\ eCollected = 3
          /\ eResults = <<>>
          /\ \A j \in 1..NumJobs : Len(eReceived[j]) = 1 /\ eProduced[j] = <<2 * j>>
    /\ \A w \in 1..NumWorkers :
          eWorkers[w].pc = "done" => (eJobsClosed /\ eJobs = <<>>)

\* C36: under every interleaving of pool and its 3 workers each of the jobs
\* 1..3 is received by exactly one worker and yields exactly one result 2*j;
\* pool returns after exactly 3 receives from results, and it does return;
\* once jobs is closed and empty every worker terminates.
C36_ExamPool ==
    /\ [](C36_Safe)
    /\ <>(ePc = "returned")
    /\ <>(\A w \in 1..NumWorkers : eWorkers[w].pc = "done")

\* C36 witness: pool has returned and all workers are over, one of them
\* having done two of the jobs and another none.
C36_Witness ==
    /\ ePc = "returned"
    /\ \A w \in 1..NumWorkers : eWorkers[w].pc = "done"
    /\ eReceived[1] = eReceived[3] /\ eReceived[2] # eReceived[1]
    /\ \A j \in 1..NumJobs : eProduced[j] = <<2 * j>>

\* ---- pool ----

RECURSIVE ObjectsUnder(_)
\* The number of objects listed under the first n links.
ObjectsUnder(n) == IF n = 0 THEN 0 ELSE links[n] + ObjectsUnder(n - 1)

\* C3 as stated: when pool has returned and every listing succeeded, the
\* returned Result holds as many links as the objects under all input links.
C3_FlattenedLength ==
    (poolPc = "returned" /\ storage = "ok"
       /\ \A l \in LinkIds : \A k \in 1..Len(listings[l]) : listings[l][k][2] = "ok")
    => Len(imageResult.Links) = ObjectsUnder(Len(links))

\* C4 as stated: when pool has returned and some link's listing failed through
\* all retries, the returned Result carries an error.
C4_ErrorCarried ==
    (poolPc = "returned" /\ variant = "pool"
       /\ \E l \in LinkIds : \E k \in 1..Len(listings[l]) : listings[l][k][2] = "exhausted")
    => imageResult.Error # Nil

\* C8 as stated: once the start loop is over, as many workers run as there are
\* links.
C8_WorkerPerLink ==
    (poolPc \in {"send", "collect", "returned"} /\ storage = "ok")
    => Len(workers) = Len(links)

\* C9 (state part): a worker sends its Result only once the jobs channel is
\* closed and drained, and sends one only; no send hits the closed results
\* channel; when pool returns it has received one Result per started worker
\* and every worker has finished.
C9_FanInSafe ==
    /\ crashed # "panic"
    /\ \A w \in 1..Len(workers) :
          workers[w].pc \in {"send", "done"} =>
             (jobsClosed /\ jobs = <<>> /\ jobsSent = Len(links))
    /\ collected + Len(poolResults) = Cardinality({w \in 1..Len(workers) : workers[w].pc = "done"})
    /\ (poolPc = "returned" /\ storage = "ok") =>
          /\ collected = Len(workers)
          /\ poolResults = <<>>
          /\ \A w \in 1..Len(workers) : workers[w].pc = "done"

\* C9: the fan-in protocol is safe in every state, and pool eventually returns
\* unless a project 2 listing ended the process; for the unbuffered project 3
\* channels and the buffered project 2 channels alike.
C9_FanIn == [](C9_FanInSafe) /\ <>(poolPc = "returned" \/ crashed = "fatal")

\* C9 witness: three workers for two links on the buffered channels, every
\* Result collected, pool returned.
C9_Witness ==
    /\ poolPc = "returned" /\ variant = "area" /\ Len(links) = 2 /\ Len(workers) = 3
    /\ collected = 3
    /\ \A w \in 1..3 : workers[w].pc = "done"

\* The places link l is at: waiting in the jobs channel, held by a worker that
\* received it and has not listed it yet, or listed.
InJobs(l) == {k \in 1..Len(jobs) : jobs[k] = l}

HeldBy(l) == {w \in 1..Len(workers) : workers[w].pc = "list" /\ workers[w].job = l}

\* The links pushed on the jobs channel so far.
Pushed == {links[k] : k \in 1..jobsSent}

\* C27: every link pushed on jobs is at exactly one place - in the channel,
\* with the one worker that received it, or listed once by that worker - and a
\* link not pushed is nowhere; when pool has returned every link has been
\* listed exactly once. How many links a worker gets is not constrained.
C27_EachJobOnce ==
    /\ \A l \in LinkIds :
          Cardinality(InJobs(l)) + Cardinality(HeldBy(l)) + Len(listings[l])
              = (IF l \in Pushed THEN 1 ELSE 0)
    /\ \A l \in LinkIds : \A k \in 1..Len(listings[l]) :
          listings[l][k][1] \in 1..Len(workers)
    /\ (poolPc = "returned" /\ storage = "ok") =>
          \A k \in 1..Len(links) : Len(listings[links[k]]) = 1

\* C27 witness: pool has returned; one worker received and listed both links,
\* the two other workers none.
C27_Witness ==
    /\ poolPc = "returned" /\ variant = "pool" /\ links = <<1, 2>>
    /\ Len(listings[1]) = 1 /\ Len(listings[2]) = 1
    /\ listings[1][1][1] = listings[2][1][1]

\* With no link: no job is sent, nothing is listed, nothing crashes, and the
\* Result returned is empty with a nil error. With a failing storage client:
\* pool has returned a Result carrying the error and no link, no worker was
\* started and no job sent.
C30_EmptySafe ==
    /\ links = <<>> =>
          /\ jobsSent = 0 /\ jobs = <<>> /\ crashed = "no"
          /\ \A l \in LinkIds : listings[l] = <<>>
          /\ (poolPc = "returned" /\ storage = "ok") =>
                imageResult = [Links |-> <<>>, Error |-> Nil]
    /\ storage = "err" =>
          /\ poolPc = "returned"
          /\ imageResult = [Links |-> <<>>, Error |-> [kind |-> "clientError"]]
          /\ workers = <<>> /\ jobsSent = 0
          /\ \A l \in LinkIds : listings[l] = <<>>

\* C30: pool called with an empty link list eventually returns, and returns
\* the empty Result without any listing; a failing storage client makes it
\* return the error before any worker or job.
C30_EmptyPool == [](C30_EmptySafe) /\ <>(links # <<>> \/ poolPc = "returned")

\* C30 witness: no link, one worker started and finished, pool returned.
C30_Witness ==
    /\ links = <<>> /\ variant = "pool" /\ poolPc = "returned" /\ storage = "ok"
    /\ Len(workers) = 1 /\ workers[1].pc = "done" /\ collected = 1

====
